---- MODULE Spec2Model ----
(***************************************************************************)
(* Model of the screenshot organizer (tools/screenshot/organizer.py), of   *)
(* its TUI (tools/screenshot/tui.py), of the batch PNG optimizer           *)
(* (scripts/batch_png_optimizer.py) and of find_best_layout and            *)
(* create_grid_image (image_reorganizer.py).                               *)
(*                                                                         *)
(* The file system is a function from the paths that exist to the data     *)
(* they hold.  A run of organize_files is a sequence of steps: the loop    *)
(* head, and the steps of _optimize_with_pngquant, each of which may fail  *)
(* the way the operating system or the external tool can make it fail.     *)
(***************************************************************************)
EXTENDS Integers, Sequences, FiniteSets, TLC

\* ------------------------------------------------------------------ bounds

\* Most files on disk when the program starts.
MaxFiles == 2
\* Most operating-system faults (a failing copy, move, mkdir, unlink, or a
\* file deleted by somebody else) injected into one behaviour.
MaxFaults == 2
\* Size in bytes of every original file, and of a file pngquant rewrote.
OrigSize == 4
OptSize == 2
\* The most results in an OrganizeResult handed to the report, and the size
\* of the files behind them.
MaxReportFiles == 6
ReportOrigSize == 1280
\* The most calls of the report on one OrganizeResult.
MaxReports == 2
\* The most images find_best_layout is asked to lay out.
MaxImages == 16
\* How many events (button presses, input changes) the user sends to the TUI.
MaxEvents == 3

\* ------------------------------------------------------- calendar (datetime)

IsLeap(y) == (y % 4 = 0) /\ ((y % 100 # 0) \/ (y % 400 = 0))

DaysInMonth(y, m) ==
    IF m = 2 THEN (IF IsLeap(y) THEN 29 ELSE 28)
    ELSE IF m \in {4, 6, 9, 11} THEN 30 ELSE 31

\* datetime(year, month, day) raises ValueError unless this holds.
ValidDate(y, m, d) ==
    /\ y >= 1 /\ y <= 9999
    /\ m >= 1 /\ m <= 12
    /\ d >= 1 /\ d <= DaysInMonth(y, m)

RECURSIVE DaysBeforeMonth(_, _)
DaysBeforeMonth(y, m) ==
    IF m <= 1 THEN 0 ELSE DaysBeforeMonth(y, m - 1) + DaysInMonth(y, m - 1)

\* Days before 1 January of year y, counted from 0001-01-01.
DaysBeforeYear(y) ==
    LET p == y - 1 IN p * 365 + (p \div 4) - (p \div 100) + (p \div 400)

\* Proleptic Gregorian ordinal: 0001-01-01 is day 1 (a Monday).
Ordinal(y, m, d) == DaysBeforeYear(y) + DaysBeforeMonth(y, m) + d

\* ISO weekday, Monday = 1 .. Sunday = 7.
IsoWeekday(y, m, d) == ((Ordinal(y, m, d) + 6) % 7) + 1

\* Ordinal of the Monday that starts ISO week 1 of year y (the week holding
\* 4 January).
IsoWeek1Monday(y) ==
    LET jan4 == Ordinal(y, 1, 4)
    IN  jan4 - (IsoWeekday(y, 1, 4) - 1)

\* The week counted from 1 January in blocks of seven days.
CalendarWeek(y, m, d) == ((DaysBeforeMonth(y, m) + d - 1) \div 7) + 1

\* date.isocalendar()[1]
IsoWeek(y, m, d) ==
    LET o == Ordinal(y, m, d)
    IN  IF o < IsoWeek1Monday(y)
        THEN ((o - IsoWeek1Monday(y - 1)) \div 7) + 1
        ELSE IF y < 9999 /\ o >= IsoWeek1Monday(y + 1)
        THEN 1
        ELSE ((o - IsoWeek1Monday(y)) \div 7) + 1

\* ------------------------------------------------------------------- text

\* The code points of the texts of this model: str as the sequence of its
\* characters.
Codes ==
    ""            :> <<>>
 @@ "Screenshot " :> <<83, 99, 114, 101, 101, 110, 115, 104, 111, 116, 32>>
 @@ " at"         :> <<32, 97, 116>>
 @@ "notes"       :> <<110, 111, 116, 101, 115>>
 @@ "my "         :> <<109, 121, 32>>
 @@ " x"          :> <<32, 120>>
 @@ "Screenshot 2023-3-15 at " :>
        <<83, 99, 114, 101, 101, 110, 115, 104, 111, 116, 32,
          50, 48, 50, 51, 45, 51, 45, 49, 53, 32, 97, 116, 32>>
 @@ " Screenshot 2023-03-15 at" :>
        <<32, 83, 99, 114, 101, 101, 110, 115, 104, 111, 116, 32,
          50, 48, 50, 51, 45, 48, 51, 45, 49, 53, 32, 97, 116>>
 @@ ".optimized"  :> <<46, 111, 112, 116, 105, 109, 105, 122, 101, 100>>
 @@ "Screenshot"  :> <<83, 99, 114, 101, 101, 110, 115, 104, 111, 116>>
 @@ "Screenshots" :> <<83, 99, 114, 101, 101, 110, 115, 104, 111, 116, 115>>
 @@ "Week"        :> <<87, 101, 101, 107>>
 @@ "png"  :> <<112, 110, 103>>
 @@ "PNG"  :> <<80, 78, 71>>
 @@ "jpg"  :> <<106, 112, 103>>
 @@ "jpeg" :> <<106, 112, 101, 103>>
 @@ "gif"  :> <<103, 105, 102>>
 @@ "bmp"  :> <<98, 109, 112>>
 @@ "tiff" :> <<116, 105, 102, 102>>
 @@ "webp" :> <<119, 101, 98, 112>>
 @@ "txt"  :> <<116, 120, 116>>
 @@ "January"   :> <<74, 97, 110, 117, 97, 114, 121>>
 @@ "February"  :> <<70, 101, 98, 114, 117, 97, 114, 121>>
 @@ "March"     :> <<77, 97, 114, 99, 104>>
 @@ "April"     :> <<65, 112, 114, 105, 108>>
 @@ "May"       :> <<77, 97, 121>>
 @@ "June"      :> <<74, 117, 110, 101>>
 @@ "July"      :> <<74, 117, 108, 121>>
 @@ "August"    :> <<65, 117, 103, 117, 115, 116>>
 @@ "September" :> <<83, 101, 112, 116, 101, 109, 98, 101, 114>>
 @@ "October"   :> <<79, 99, 116, 111, 98, 101, 114>>
 @@ "November"  :> <<78, 111, 118, 101, 109, 98, 101, 114>>
 @@ "December"  :> <<68, 101, 99, 101, 109, 98, 101, 114>>
 @@ "skipped " :> <<115, 107, 105, 112, 112, 101, 100, 32>>
 @@ "skipped" :> <<115, 107, 105, 112, 112, 101, 100>>
 @@ "optimized" :> <<111, 112, 116, 105, 109, 105, 122, 101, 100>>
 @@ "optimized to " :> <<111, 112, 116, 105, 109, 105, 122, 101, 100, 32, 116, 111, 32>>
 @@ "skipped (would be larger)" :>
        <<115, 107, 105, 112, 112, 101, 100, 32, 40, 119, 111, 117, 108, 100, 32, 98, 101, 32, 108, 97, 114, 103, 101, 114, 41>>
 @@ "pngquant failed: " :>
        <<112, 110, 103, 113, 117, 97, 110, 116, 32, 102, 97, 105, 108, 101, 100, 58, 32>>
 @@ "processing error: " :>
        <<112, 114, 111, 99, 101, 115, 115, 105, 110, 103, 32, 101, 114, 114, 111, 114, 58, 32>>
 @@ "file access error: " :>
        <<102, 105, 108, 101, 32, 97, 99, 99, 101, 115, 115, 32, 101, 114, 114, 111, 114, 58, 32>>
 @@ " (" :> <<32, 40>>
 @@ "% reduction)" :> <<37, 32, 114, 101, 100, 117, 99, 116, 105, 111, 110, 41>>
 @@ "IndexError" :> <<>>

Dot   == <<46>>
Dash  == <<45>>
Slash == <<47>>

\* "\d" on the ASCII names of this model
IsDigit(c) == c >= 48 /\ c <= 57

\* str(n) for n >= 0
RECURSIVE Decimal(_)
Decimal(n) ==
    IF n < 10 THEN <<48 + n>> ELSE Decimal(n \div 10) \o <<48 + (n % 10)>>

\* f"{n:0wd}": zero-padded to at least w characters
RECURSIVE Pad(_, _)
Pad(n, w) ==
    LET t == Decimal(n)
    IN  IF Len(t) >= w THEN t ELSE <<48>> \o Pad(n, w - 1)

\* int(s) of a run of digits
RECURSIVE int(_)
int(s) ==
    IF s = <<>> THEN 0
    ELSE 10 * int(SubSeq(s, 1, Len(s) - 1)) + (s[Len(s)] - 48)

\* str.lower()
Lower(s) == [k \in 1..Len(s) |-> IF s[k] >= 65 /\ s[k] <= 90 THEN s[k] + 32 ELSE s[k]]

\* PurePath.suffix: the name from its last dot on, unless that dot starts or
\* ends the name.
Suffix(s) ==
    LET dots == {k \in 1..Len(s) : s[k] = 46}
        last == CHOOSE k \in dots : \A j \in dots : j <= k
    IN  IF dots = {} THEN <<>>
        ELSE IF last = 1 \/ last = Len(s) THEN <<>>
        ELSE SubSeq(s, last, Len(s))

\* Whether DEFAULT_PATTERN, r"Screenshot (\d{4})-(\d{2})-(\d{2}) at", matches
\* s at position k.
MatchAt(s, k) ==
    /\ k + 23 <= Len(s)
    /\ SubSeq(s, k, k + 10) = Codes["Screenshot "]
    /\ \A j \in (k + 11)..(k + 14) : IsDigit(s[j])
    /\ s[k + 15] = 45
    /\ \A j \in (k + 16)..(k + 17) : IsDigit(s[j])
    /\ s[k + 18] = 45
    /\ \A j \in (k + 19)..(k + 20) : IsDigit(s[j])
    /\ SubSeq(s, k + 21, k + 23) = Codes[" at"]

\* A search that returns the rightmost match.
re_search_last(s) ==
    LET hits == {k \in 1..Len(s) : MatchAt(s, k)}
    IN  IF hits = {} THEN 0 ELSE CHOOSE k \in hits : \A j \in hits : j <= k

\* re.search(DEFAULT_PATTERN, s): the position of the leftmost match, 0 for
\* no match.
re_search(s) ==
    LET hits == {k \in 1..Len(s) : MatchAt(s, k)}
    IN  IF hits = {} THEN 0 ELSE CHOOSE k \in hits : \A j \in hits : k <= j

\* ------------------------------------------------------------ file names

\* A file name, by how it is written: the text before the marker, whether
\* the marker "Screenshot YYYY-MM-DD at" is there and with which digits
\* ("notes" stands in its place otherwise), the text after it, whether
\* ".optimized" stands before the suffix (the batch optimizer's sibling
\* file), and the suffix without its dot.
Name(pre, match, y, m, d, post, ext) ==
    [pre |-> pre, match |-> match, y |-> y, m |-> m, d |-> d, post |-> post,
     ext |-> ext, optimized |-> FALSE]

\* The name as the program reads it.
NameString(n) ==
    Codes[n.pre]
      \o (IF n.match
          THEN Codes["Screenshot "] \o Pad(n.y, 4) \o Dash \o Pad(n.m, 2)
                  \o Dash \o Pad(n.d, 2) \o Codes[" at"]
          ELSE Codes["notes"])
      \o Codes[n.post]
      \o (IF n.optimized THEN Codes[".optimized"] ELSE <<>>)
      \o Dot \o Codes[n.ext]

ShotA   == Name("", TRUE, 2023, 3, 15, "", "png")
ShotB   == Name("", TRUE, 2023, 3, 15, "", "jpg")
ShotC   == Name("", TRUE, 2021, 1, 1, "", "png")
ShotBad == Name("", TRUE, 2023, 13, 1, "", "png")
Notes   == Name("", FALSE, 0, 0, 0, "", "png")

Names == {ShotA, ShotB, ShotC, ShotBad, Notes}

\* Names that try the classifier: another suffix, an upper-case suffix, text
\* around the marker, a second marker after the first, a near miss before
\* the marker, and digits that are no calendar date.
ShotTxt   == Name("", TRUE, 2023, 3, 15, "", "txt")
ShotUpper == Name("", TRUE, 2023, 3, 15, "", "PNG")
ShotText  == Name("my ", TRUE, 2023, 3, 15, " x", "png")
ShotTwice == Name("", TRUE, 2021, 1, 1, " Screenshot 2023-03-15 at", "png")
ShotNear  == Name("Screenshot 2023-3-15 at ", TRUE, 2021, 1, 1, "", "png")
ShotZero  == Name("", TRUE, 2023, 0, 10, "", "png")
ShotFeb30 == Name("", TRUE, 2023, 2, 30, "", "png")
ShotYear0 == Name("", TRUE, 0, 1, 1, "", "png")
\* A Monday whose ISO week belongs to the next year.
ShotDec30 == Name("", TRUE, 2024, 12, 30, "", "png")
\* A name that holds a word of the batch optimizer's status messages.
ShotSkipped == Name("skipped ", TRUE, 2023, 3, 15, "", "png")

OddNames == {ShotTxt, ShotUpper, ShotText, ShotTwice, ShotNear, ShotZero,
             ShotFeb30, ShotYear0, ShotDec30, ShotSkipped}

DEFAULT_EXTENSIONS ==
    {Dot \o Codes[e] : e \in {"png", "jpg", "jpeg", "gif", "bmp", "tiff", "webp"}}

\* ------------------------------------------------------------------ paths

\* A month/week folder under target_dir: "{year}-{month:02d}-{name}/Week{NN}".
NoFolder == [year |-> 0, month |-> 0, mname |-> "", week |-> 0]

\* A path: a file name in the top level of source_dir ("root"), in a
\* subdirectory of source_dir ("sub"), or in a folder of target_dir
\* ("target").
SrcPath(loc, n) == [loc |-> loc, folder |-> NoFolder, name |-> n]
TgtPath(f, n)   == [loc |-> "target", folder |-> f, name |-> n]
NoPath          == [loc |-> "none", folder |-> NoFolder, name |-> Notes]

\* What a file holds: whose bytes (the path the file had when the program
\* started) and whether they are the original bytes, the bytes pngquant
\* wrote, or nothing yet (a fresh temporary file).
Data(p, v) == [origin |-> p, ver |-> v]
NoData     == Data(NoPath, "none")
EmptyData  == Data(NoPath, "empty")

\* st_size
Size(c) == IF c.ver = "orig" THEN OrigSize ELSE IF c.ver = "opt" THEN OptSize ELSE 0

Exists(f, p)   == p \in DOMAIN f
Put(f, p, c)   == [q \in (DOMAIN f) \cup {p} |-> IF q = p THEN c ELSE f[q]]
Remove(f, p)   == [q \in (DOMAIN f) \ {p} |-> f[q]]

\* -------------------------------------------------- PathClassifier

\* bool(re.search(self.pattern, filename))
_matches_pattern(n) == \E s \in {NameString(n)} : re_search(s) # 0

\* file_path.suffix.lower() in self.extensions
_has_valid_extension(n) ==
    \E s \in {NameString(n)} : Lower(Suffix(s)) \in DEFAULT_EXTENSIONS

None3 == <<0 - 1, 0 - 1, 0 - 1>>

\* (int(year), int(month), int(day)) of the groups of the match at k in s,
\* or None
Groups(s, k) ==
    IF k = 0 THEN None3
    ELSE <<int(SubSeq(s, k + 11, k + 14)), int(SubSeq(s, k + 16, k + 17)),
           int(SubSeq(s, k + 19, k + 20))>>

\* The groups of re.search(self.pattern, filename), for the one text s that
\* is the file's name.
_parse_date_from_filename(n) ==
    CHOOSE date \in {Groups(s, re_search(s)) : s \in {NameString(n)}} : TRUE

months == << "January", "February", "March", "April", "May", "June",
             "July", "August", "September", "October", "November", "December" >>

\* months[month - 1], with Python's indexing: -1 is the last element, and an
\* index outside -12 .. 11 raises IndexError.
_get_month_name(month) ==
    LET k == month - 1
    IN  IF k >= 0 /\ k <= 11 THEN months[k + 1]
        ELSE IF k < 0 /\ k >= 0 - 12 THEN months[k + 13]
        ELSE "IndexError"

\* A week number for any digits, with no date constructed.
_get_week_of_year_unchecked(year, month, day) ==
    IF ValidDate(year, month, day) THEN IsoWeek(year, month, day) ELSE 1

\* datetime(year, month, day).isocalendar()[1]; -1 stands for the ValueError
\* datetime raises.
_get_week_of_year(year, month, day) ==
    IF ValidDate(year, month, day) THEN IsoWeek(year, month, day) ELSE 0 - 1

\* A target path that is None for digits that are no date.
_create_target_path_lenient(n) ==
    LET date_info == _parse_date_from_filename(n)
        year      == date_info[1]
        month     == date_info[2]
        day       == date_info[3]
    IN  IF date_info = None3 \/ ~ValidDate(year, month, day)
        THEN [kind |-> "none", path |-> NoPath]
        ELSE [kind |-> "path",
              path |-> TgtPath([year |-> year, month |-> month,
                                mname |-> _get_month_name(month),
                                week |-> IsoWeek(year, month, day)], n)]

\* The outcome of _create_target_path: kind "none" (returns None), "raise"
\* (an exception leaves the function) or "path" (returns path).
_create_target_path(n) ==
    LET date_info == _parse_date_from_filename(n)
        year      == date_info[1]
        month     == date_info[2]
        day       == date_info[3]
        week_num  == _get_week_of_year(year, month, day)
        month_name == _get_month_name(month)
    IN  IF date_info = None3 THEN [kind |-> "none", path |-> NoPath]
        ELSE IF week_num < 0 THEN [kind |-> "raise", path |-> NoPath]
        ELSE IF month_name = "IndexError" THEN [kind |-> "raise", path |-> NoPath]
        ELSE [kind |-> "path",
              path |-> TgtPath([year |-> year, month |-> month,
                                mname |-> month_name, week |-> week_num], n)]

\* ---------------------------------------------------------- FileDiscovery

\* The names of the month and week folders of f:
\* f"{year}-{month:02d}-{month_name}" and f"Week{week_num:02d}".
FolderStrings(f) ==
    << Decimal(f.year) \o Dash \o Pad(f.month, 2) \o Dash \o Codes[f.mname],
       Codes["Week"] \o Pad(f.week, 2) >>

\* Path.parts below source_dir.  The subdirectory is "Screenshot", and
\* target_dir, where it lies inside source_dir, is "Screenshots" (the
\* default ~/Desktop/Screenshots).
Parts(p) ==
    IF p.loc = "root" THEN <<NameString(p.name)>>
    ELSE IF p.loc = "sub" THEN <<Codes["Screenshot"], NameString(p.name)>>
    ELSE <<Codes["Screenshots"]>> \o FolderStrings(p.folder) \o <<NameString(p.name)>>

\* str < str
RECURSIVE LexLess(_, _)
LexLess(a, b) ==
    IF a = <<>> THEN b # <<>>
    ELSE IF b = <<>> THEN FALSE
    ELSE IF Head(a) # Head(b) THEN Head(a) < Head(b)
    ELSE LexLess(Tail(a), Tail(b))

\* Path < Path, as sorted(files) compares: the tuples of parts, part by part.
RECURSIVE PartsLess(_, _)
PartsLess(a, b) ==
    IF a = <<>> THEN b # <<>>
    ELSE IF b = <<>> THEN FALSE
    ELSE IF Head(a) # Head(b) THEN LexLess(Head(a), Head(b))
    ELSE PartsLess(Tail(a), Tail(b))

\* sep.join(parts)
RECURSIVE JoinWith(_, _)
JoinWith(parts, sep) ==
    IF parts = <<>> THEN <<>>
    ELSE IF Len(parts) = 1 THEN Head(parts)
    ELSE Head(parts) \o sep \o JoinWith(Tail(parts), sep)

\* str(path), below source_dir
PathString(p) == JoinWith(Parts(p), Slash)

\* An order of paths by their full strings.
PathLessByString(p, q) ==
    \E a \in {PathString(p)}, b \in {PathString(q)} : LexLess(a, b)

PathLess(p, q) == \E a \in {Parts(p)}, b \in {Parts(q)} : PartsLess(a, b)

RECURSIVE SortedSeq(_)
SortedSeq(S) ==
    IF S = {} THEN <<>>
    ELSE LET lo == CHOOSE p \in S : \A q \in S \ {p} : PathLess(p, q)
         IN  <<lo>> \o SortedSeq(S \ {lo})

\* An enumeration that descends whatever the flag says.
EnumeratedAllDepths(p, rec, nest) ==
    \/ p.loc \in {"root", "sub"}
    \/ nest /\ p.loc = "target"

\* Whether rglob('*') (recursive) or iterdir() (not recursive) on source_dir
\* yields path p; nest says that target_dir lies inside source_dir, as with
\* the defaults ~/Desktop and ~/Desktop/Screenshots.
Enumerated(p, rec, nest) ==
    \/ p.loc = "root"
    \/ rec /\ p.loc = "sub"
    \/ rec /\ nest /\ p.loc = "target"

\* file_path.is_file()
is_file(f, p) == f[p].ver # "dir"

\* The candidates when the name is not tested against the pattern.
CandidatesAnyName(f, rec, nest) ==
    {p \in DOMAIN f : /\ Enumerated(p, rec, nest)
                      /\ is_file(f, p)
                      /\ _has_valid_extension(p.name)}

\* The paths the loop over rglob('*') or iterdir() appends to files.
Candidates(f, rec, nest) ==
    {p \in DOMAIN f : /\ Enumerated(p, rec, nest)
                      /\ is_file(f, p)
                      /\ _matches_pattern(p.name)
                      /\ _has_valid_extension(p.name)}

\* Discovery without the test of source_dir.exists(): iterdir() on a
\* missing directory raises FileNotFoundError.
find_screenshot_files_unguarded(rt, f, rec, nest) ==
    IF rt \in {"missing", "file"}
    THEN (IF rec THEN [kind |-> "list", files |-> <<>>]
                 ELSE [kind |-> "raise", files |-> <<>>])
    ELSE [kind |-> "list", files |-> SortedSeq(Candidates(f, rec, nest))]

\* What find_screenshot_files does for a source_dir that is a directory
\* ("dir"), a regular file ("file") or nothing ("missing"): it returns a
\* list (kind "list") or an exception leaves it (kind "raise").  On a
\* regular file iterdir() raises NotADirectoryError and rglob('*') yields
\* nothing.
find_screenshot_files(rt, f, rec, nest) ==
    IF rt = "missing" THEN [kind |-> "list", files |-> <<>>]
    ELSE IF rt = "file"
    THEN (IF rec THEN [kind |-> "list", files |-> <<>>]
                 ELSE [kind |-> "raise", files |-> <<>>])
    ELSE [kind |-> "list", files |-> SortedSeq(Candidates(f, rec, nest))]

\* ------------------------------------------------------------- records

\* ProcessResult; -1 stands for a size or ratio that is None, "None" for a
\* message or status that is None, NoPath for a target_path that is None.
ProcessResult(src, tgt, ok, msg, osize, csize, ratio, status) ==
    [source_path |-> src, target_path |-> tgt, success |-> ok,
     error_message |-> msg, original_size |-> osize, compressed_size |-> csize,
     compression_ratio |-> ratio, pngquant_status |-> status]

NoResult == ProcessResult(NoPath, NoPath, FALSE, "None", 0 - 1, 0 - 1, 0 - 1, "None")

\* (original_size - compressed_size) / original_size * 100, in whole percent
Ratio(osize, csize) == IF osize > 0 THEN ((osize - csize) * 100) \div osize ELSE 0

RECURSIVE SumSeq(_)
SumSeq(q) == IF q = <<>> THEN 0 ELSE Head(q) + SumSeq(Tail(q))

\* sum(1 for r in results if r.pngquant_status == status)
CountStatus(rs, status) ==
    Cardinality({k \in 1..Len(rs) : rs[k].pngquant_status = status})

\* The number of results with success == ok.
CountSuccess(rs, ok) == Cardinality({k \in 1..Len(rs) : rs[k].success = ok})

\* "error" in status
HasError(status) == status \in {"error", "error_fallback"}

\* The statistics and the OrganizeResult that organize_files builds after
\* its loop.
OrganizeResult(n, proc, fl, folders, rs) ==
    LET osz(r) == IF r.original_size > 0 THEN r.original_size ELSE 0
        csz(r) == IF r.compressed_size > 0 THEN r.compressed_size ELSE 0
        total_original_size   == SumSeq([k \in 1..Len(rs) |-> osz(rs[k])])
        total_compressed_size == SumSeq([k \in 1..Len(rs) |-> csz(rs[k])])
        total_savings         == total_original_size - total_compressed_size
    IN  [returned |-> TRUE,
         total_files |-> n, processed_files |-> proc, failed_files |-> fl,
         created_folders |-> folders, results |-> rs,
         total_original_size |-> total_original_size,
         total_compressed_size |-> total_compressed_size,
         total_savings |-> total_savings,
         optimization_stats |->
            [optimized_count |-> CountStatus(rs, "optimized"),
             skipped_non_png |-> CountStatus(rs, "skipped_non_png"),
             skipped_larger  |-> CountStatus(rs, "skipped_larger"),
             error_count     |->
                Cardinality({k \in 1..Len(rs) :
                                /\ rs[k].pngquant_status # "None"
                                /\ HasError(rs[k].pngquant_status)}),
             average_compression |->
                IF total_original_size > 0
                THEN (total_savings * 100) \div total_original_size ELSE 0]]

\* ------------------------------------------- generate_compression_report

\* a / b rounded to the nearest integer, a tie to the even one: what the
\* format .1f does with a value that a float holds exactly.
RoundHalfEven(a, b) ==
    LET q == a \div b
        r == a % b
    IN  IF 2 * r < b THEN q
        ELSE IF 2 * r > b THEN q + 1
        ELSE IF q % 2 = 0 THEN q ELSE q + 1

RECURSIVE Pow1024(_)
Pow1024(k) == IF k = 0 THEN 1 ELSE 1024 * Pow1024(k - 1)

\* The while loop of _format_size: the unit index it stops at.
RECURSIVE UnitIndex(_, _)
UnitIndex(size_bytes, unit_index) ==
    IF size_bytes >= 1024 * Pow1024(unit_index) /\ unit_index < 3
    THEN UnitIndex(size_bytes, unit_index + 1)
    ELSE unit_index

units == <<"B", "KB", "MB", "GB">>

\* _format_size: "0 B", a whole number of bytes, or one decimal of a larger
\* unit. The text is the number before the point, the digit after it (-1
\* where there is none) and the unit.
_format_size(size_bytes) ==
    LET unit_index == UnitIndex(size_bytes, 0)
        tenths == RoundHalfEven(size_bytes * 10, Pow1024(unit_index))
    IN  IF size_bytes = 0 \/ unit_index = 0
        THEN [whole |-> size_bytes, tenth |-> 0 - 1, unit |-> units[1]]
        ELSE [whole |-> tenths \div 10, tenth |-> tenths % 10,
              unit |-> units[unit_index + 1]]

\* f"{x:.1f}" of a whole number of percent.
Fixed1(x) == [whole |-> x, tenth |-> 0]

\* x or 0, for a size that may be None
OrZero(x) == IF x > 0 THEN x ELSE 0

\* A filter that takes every result of a positive ratio for interesting.
positive_files(rs) == SelectSeq(rs, LAMBDA r : r.compression_ratio > 0)

\* [r for r in result.results if r.compression_ratio and
\*  r.compression_ratio > 50]
interesting_files(rs) == SelectSeq(rs, LAMBDA r : r.compression_ratio > 50)

\* sorted(..., key=compression_ratio, reverse=True): by falling ratio, and
\* results of one ratio in the order they had.
RECURSIVE sorted_files(_)
sorted_files(q) ==
    IF q = <<>> THEN <<>>
    ELSE LET top == CHOOSE k \in 1..Len(q) :
                        /\ \A j \in 1..Len(q) :
                              q[j].compression_ratio <= q[k].compression_ratio
                        /\ \A j \in 1..(k - 1) :
                              q[j].compression_ratio < q[k].compression_ratio
             rest == [j \in 1..(Len(q) - 1) |-> IF j < top THEN q[j] ELSE q[j + 1]]
         IN  <<q[top]>> \o sorted_files(rest)

\* [:5]
FirstFive(q) == SubSeq(q, 1, IF Len(q) < 5 THEN Len(q) ELSE 5)

\* optimization_stats is None
NoStats ==
    [optimized_count |-> 0 - 1, skipped_non_png |-> 0 - 1, skipped_larger |-> 0 - 1,
     error_count |-> 0 - 1, average_compression |-> 0 - 1]

\* The text generate_compression_report builds, field by field in the order
\* of the template; kept stands for the two words of the template, "(deleted)"
\* and "(kept)".
ReportText(keep, res) ==
    IF res.optimization_stats = NoStats
    THEN [kind |-> "No optimization statistics available."]
    ELSE [kind |-> "report",
          total_files |-> res.total_files,
          processed_files |-> res.processed_files,
          failed_files |-> res.failed_files,
          original |-> _format_size(res.total_original_size),
          kept |-> IF ~keep THEN "(deleted)" ELSE "(kept)",
          compressed |-> _format_size(res.total_compressed_size),
          savings |-> _format_size(res.total_savings),
          average |-> Fixed1(res.optimization_stats.average_compression),
          optimized_count |-> res.optimization_stats.optimized_count,
          skipped_non_png |-> res.optimization_stats.skipped_non_png,
          skipped_larger |-> res.optimization_stats.skipped_larger,
          error_count |-> res.optimization_stats.error_count,
          folders |-> Cardinality(res.created_folders),
          best |-> LET top == FirstFive(sorted_files(interesting_files(res.results)))
                   IN  [k \in 1..Len(top) |->
                           [name |-> NameString(top[k].source_path.name),
                            ratio |-> Fixed1(top[k].compression_ratio),
                            original |-> _format_size(OrZero(top[k].original_size)),
                            compressed |-> _format_size(OrZero(top[k].compressed_size))]]]

\* A report that sorts result.results itself (list.sort) to find the best
\* files, and so hands the OrganizeResult back reordered.
generate_compression_report_in_place(keep, res) ==
    [text |-> ReportText(keep, res),
     result |-> [res EXCEPT !.results = sorted_files(res.results)]]

\* generate_compression_report(result): the text it returns and the
\* OrganizeResult as the call leaves it.
generate_compression_report(keep, res) ==
    [text |-> ReportText(keep, res), result |-> res]

\* No OrganizeResult: organize_files has not returned.
NotReturned ==
    [returned |-> FALSE, total_files |-> 0, processed_files |-> 0,
     failed_files |-> 0, created_folders |-> {}, results |-> <<>>,
     total_original_size |-> 0, total_compressed_size |-> 0, total_savings |-> 0,
     optimization_stats |->
        [optimized_count |-> 0, skipped_non_png |-> 0, skipped_larger |-> 0,
         error_count |-> 0, average_compression |-> 0]]

\* ------------------------------------------------------------------ state

VARIABLES
    prog,            \* which program runs: "organizer", "batch", "report" (a
                     \* caller of generate_compression_report), "layout"
                     \* (find_best_layout) or "tui" (ScreenshotOrganizerApp)
    mode,            \* self.mode: "move" or "optimize_move"
    keep_original,   \* self.keep_original
    recursive,       \* self.recursive
    nested,          \* target_dir lies inside source_dir
    tool,            \* the host's pngquant: present or not, and its exit codes
    root,            \* what source_dir is: "dir", "file" or "missing"
    preview_only,    \* the argument of the running organize_files
    fs,              \* the files under source_dir and target_dir
    temps,           \* the files in the temporary directory, by serial number
    dirs,            \* the month/week folders that exist under target_dir
    fs0, dirs0,      \* fs and dirs when the running call started
    pc,              \* where the program is
    files, i,        \* the discovered list and the 1-based loop index
    results, created_folders, processed, failed,
    target_path, original_size, original, temp_path, returncode,
    compressed_size, result,
    breturn,         \* what PNGOptimizer.optimize_png returned
    stats,           \* the counters of PNGOptimizer
    ret,             \* what organize_files returned
    prev,            \* what the preview before this run returned
    calls,           \* the calls of the progress callback in the running call
    faults,          \* faults injected so far
    reports,         \* the texts generate_compression_report has returned
    given,           \* the OrganizeResult as the first report call got it
    num_images,      \* the argument of find_best_layout
    rows,            \* its loop variable
    best_ratio,      \* the best score so far, a fraction <<numerator, denominator>>
    best_layout,
    layout,          \* what find_best_layout returned
    tui              \* the ScreenshotOrganizerApp: its settings, its organizer,
                     \* is_processing and its workers

vars == <<prog, mode, keep_original, recursive, nested, tool, root, preview_only,
          fs, temps, dirs, fs0, dirs0, pc, files, i, results, created_folders,
          processed, failed, target_path, original_size, original, temp_path,
          returncode, compressed_size, result, breturn, stats, ret, prev, calls,
          faults, reports, given, num_images, rows, best_ratio, best_layout, layout,
          tui>>

config == <<prog, mode, keep_original, recursive, nested, tool, root>>
locals == <<target_path, original_size, original, temp_path, returncode,
            compressed_size, result>>
loopvars == <<files, i, results, created_folders, processed, failed>>
batchvars == <<breturn, stats>>
reportvars == <<reports, given>>
layoutvars == <<num_images, rows, best_ratio, best_layout, layout>>

\* The folder of ShotA and ShotB: 2023-03-March/Week11.
FolderOf(n) == _create_target_path(n).path.folder

\* Where a file can be when the program starts: the top level of source_dir,
\* a subdirectory, or (left there by an earlier run) its own target path.
InitPaths ==
    {SrcPath("root", n) : n \in Names}
        \cup {SrcPath("sub", ShotA)}
        \cup {_create_target_path(n).path : n \in {ShotA, ShotB}}

\* pngquant on this host: absent, or present with the exit codes it can end
\* with (0 success, 98 the result would be larger, 1 any other failure).
Tools ==
    {[present |-> FALSE, exits |-> {}]}
        \cup {[present |-> TRUE, exits |-> e] : e \in {{0}, {98}, {1}, {0, 1, 98}}}

\* (success, status_message, original_size, compressed_size) of optimize_png
Return4(ok, status, osize, csize) ==
    [success |-> ok, status |-> status, original_size |-> osize,
     compressed_size |-> csize]
NoReturn == Return4(FALSE, <<>>, 0 - 1, 0 - 1)

\* f"{compression_ratio:.1f}" for the ratio (osize - csize) / osize * 100
RatioText(osize, csize) ==
    LET tenths == RoundHalfEven((osize - csize) * 1000, osize)
    IN  Decimal(tenths \div 10) \o Dot \o Decimal(tenths % 10)

\* f"optimized ({compression_ratio:.1f}% reduction)"
OptimizedStatus(osize, csize) ==
    Codes["optimized"] \o Codes[" ("] \o RatioText(osize, csize) \o Codes["% reduction)"]

\* f"optimized to {backup_path.name} ({compression_ratio:.1f}% reduction)"
OptimizedToStatus(name, osize, csize) ==
    Codes["optimized to "] \o name \o Codes[" ("] \o RatioText(osize, csize)
        \o Codes["% reduction)"]

\* PNGOptimizer.__init__
ZeroStats ==
    [processed_files |-> 0, optimized_files |-> 0, skipped_files |-> 0,
     error_files |-> 0, total_original_size |-> 0, total_compressed_size |-> 0]

\* The files behind the results handed to the report, in discovery order.
ReportPaths ==
    <<SrcPath("sub", ShotTwice), SrcPath("sub", ShotC), SrcPath("sub", ShotA),
      SrcPath("sub", ShotText), SrcPath("root", ShotTwice), SrcPath("root", ShotC),
      SrcPath("root", ShotA), SrcPath("root", ShotText)>>

\* The compressed sizes of those results: None for a failure, or a part of
\* the original size.
ReportSizes == {0 - 1, 768, 512, 256}

\* The result for the k-th file with the compressed size csize.
ReportResult(k, csize) ==
    LET source == ReportPaths[k]
        failed_one == csize < 0
    IN  ProcessResult(source, TgtPath(FolderOf(source.name), source.name),
                      ~failed_one, IF failed_one THEN "exception" ELSE "None",
                      ReportOrigSize, csize,
                      IF failed_one THEN 0 - 1 ELSE Ratio(ReportOrigSize, csize),
                      IF failed_one THEN "error" ELSE "optimized")

\* The OrganizeResults the report is called on: what organize_files returns
\* for up to MaxReportFiles files (and at most as many as ReportPaths has),
\* of which the first only may have failed, and one that carries no
\* statistics.
ReportInputs ==
    LET lens == {n \in 0..MaxReportFiles : n <= Len(ReportPaths)}
        seqs == UNION {{q \in [1..n -> ReportSizes] : \A k \in 2..n : q[k] >= 0} :
                          n \in lens}
        lists == {[k \in 1..Len(q) |-> ReportResult(k, q[k])] : q \in seqs}
        organized == {OrganizeResult(Len(rs), CountSuccess(rs, TRUE),
                                     CountSuccess(rs, FALSE),
                                     {rs[k].target_path.folder : k \in 1..Len(rs)}, rs) :
                         rs \in lists}
    IN  organized \cup {[NotReturned EXCEPT !.returned = TRUE,
                                           !.optimization_stats = NoStats]}

\* float('inf'), and no layout yet
Infinity == <<1, 0>>
NoLayout == <<0 - 1, 0 - 1>>

\* self.organizer before on_mount
NoOrganizer ==
    [source_dir |-> "None", target_dir |-> "None", mode |-> "None",
     recursive |-> FALSE, keep_original |-> FALSE]

\* ScreenshotOrganizerApp as __init__ leaves it: the reactive attributes at
\* their defaults (source_dir the Desktop, a directory; target_dir the
\* folder Screenshots inside it), no organizer, no worker; and the count of
\* the events handled, of the presses that returned at the guard and of the
\* workers that ended.
NewApp ==
    [current_mode |-> "optimize_move", source_dir |-> "dir", target_dir |-> "inside",
     files_found |-> 0, is_processing |-> FALSE, organizer |-> NoOrganizer,
     keep_original |-> FALSE, workers |-> <<>>, exited |-> FALSE,
     events |-> 0, ignored |-> 0, ended |-> 0]

\* The trees the program can find: up to MaxFiles files with the common
\* names, or one file with one of the odd names, or one directory that is
\* named like a screenshot, or one file of no bytes.
InitTrees ==
    {[p \in S |-> Data(p, "orig")] :
        S \in {T \in SUBSET InitPaths : Cardinality(T) <= MaxFiles}}
      \cup {[p \in {SrcPath("root", n)} |-> Data(p, "orig")] : n \in OddNames}
      \cup {[p \in {SrcPath("root", ShotA)} |-> Data(p, "dir")]}
      \cup {[p \in {SrcPath("root", ShotA)} |-> Data(p, "empty")]}

\* What the Desktop holds when the TUI starts: one screenshot.
TuiTrees == {[p \in {SrcPath("root", ShotA)} |-> Data(p, "orig")]}

Init ==
    /\ prog \in {"organizer", "batch", "report", "layout", "tui"}
    /\ mode \in (IF prog = "organizer" THEN {"move", "optimize_move"}
                 ELSE {"optimize_move"})
    /\ keep_original \in (IF prog \in {"layout", "tui"} THEN {FALSE} ELSE BOOLEAN)
    /\ preview_only = FALSE
    /\ root \in (IF prog \in {"organizer", "batch"} THEN {"dir", "file", "missing"}
                 ELSE {"dir"})
    /\ fs \in (IF prog \in {"organizer", "batch"} /\ root = "dir" THEN InitTrees
               ELSE IF prog = "tui" THEN TuiTrees
               ELSE {<<>>})
    \* A setting that nothing reads in this tree takes one value only: the
    \* flag recursive where every file is at the top level of a directory,
    \* the place of target_dir where no file is under it, and pngquant in
    \* mode MOVE.
    /\ recursive \in (IF root = "dir" /\ \A p \in DOMAIN fs : p.loc = "root"
                      THEN {FALSE} ELSE BOOLEAN)
    /\ nested \in (IF \E p \in DOMAIN fs : p.loc = "target" THEN BOOLEAN ELSE {FALSE})
    /\ tool \in (IF mode = "move" \/ prog \in {"report", "layout"}
                 THEN {[present |-> FALSE, exits |-> {}]}
                 ELSE IF prog = "tui" THEN {[present |-> TRUE, exits |-> {0}]}
                 ELSE Tools)
    /\ \E extra \in (IF prog \in {"organizer", "batch"} THEN SUBSET {FolderOf(ShotA)}
                     ELSE {{}}) :
          dirs = {p.folder : p \in {q \in DOMAIN fs : q.loc = "target"}} \cup extra
    /\ temps = <<>>
    /\ fs0 = fs
    /\ dirs0 = dirs
    /\ pc = IF prog = "report" THEN "have_result" ELSE "idle"
    /\ files = <<>>
    /\ i = 0
    /\ results = <<>>
    /\ created_folders = {}
    /\ processed = 0
    /\ failed = 0
    /\ target_path = NoPath
    /\ original_size = 0 - 1
    /\ original = NoData
    /\ temp_path = 0
    /\ returncode = 0 - 1
    /\ compressed_size = 0 - 1
    /\ result = NoResult
    /\ breturn = NoReturn
    /\ stats = ZeroStats
    /\ ret \in (IF prog = "report" THEN ReportInputs ELSE {NotReturned})
    /\ prev = NotReturned
    /\ calls = <<>>
    /\ faults = 0
    /\ reports = <<>>
    /\ given = NotReturned
    /\ num_images \in (IF prog = "layout" THEN (0 - 1)..MaxImages ELSE {0})
    /\ rows = 0
    /\ best_ratio = Infinity
    /\ best_layout = NoLayout
    /\ layout = NoLayout
    /\ tui = NewApp

ClearLocals ==
    /\ target_path' = NoPath
    /\ original_size' = 0 - 1
    /\ original' = NoData
    /\ temp_path' = 0
    /\ returncode' = 0 - 1
    /\ compressed_size' = 0 - 1
    /\ result' = NoResult

\* -------------------------------------------------------- organize_files

\* organize_files(preview_only) is called: discovery, and the loop starts.
\* A real run may follow a preview (the CLI's --preview, the TUI's Preview
\* button, then the run itself).
BeginCall(pv, rt, rec, nest) ==
    /\ preview_only' = pv
    /\ ret' = NotReturned
    /\ LET found == find_screenshot_files(rt, fs, rec, nest)
       IN  /\ files' = found.files
           /\ pc' = IF found.kind = "raise" THEN "aborted" ELSE "loop"
    /\ i' = 1
    /\ results' = <<>>
    /\ created_folders' = {}
    /\ processed' = 0
    /\ failed' = 0
    /\ calls' = <<>>
    /\ fs0' = fs
    /\ dirs0' = dirs
    /\ reports' = <<>>
    /\ given' = NotReturned

\* A caller (the CLI, a script) calls organize_files: once, or a real run
\* after a preview.
OrganizeStart(pv) ==
    /\ prog = "organizer"
    /\ \/ pc = "idle"
       \/ pc = "done" /\ preview_only /\ ~pv
    /\ prev' = IF pc = "done" THEN ret ELSE prev
    /\ BeginCall(pv, root, recursive, nested)
    /\ UNCHANGED <<config, tui, layoutvars, fs, temps, dirs, locals, batchvars, faults>>

\* Dispatch with the preview test lost: a preview would process the files.
DispatchIgnoringPreview(pv, m) ==
    IF m = "optimize_move" THEN "opt_stat" ELSE "move"

\* What the loop body does with a file once it has a target path (lines
\* 316-329): record it (preview), or hand it to the optimization step or to
\* the plain move.
Dispatch(pv, m) ==
    IF pv THEN "preview" ELSE IF m = "optimize_move" THEN "opt_stat" ELSE "move"

\* One pass through the head of the for loop: the progress callback (the
\* TUI and the CLI set one), the target path, and the cases that need no
\* file operation.
LoopHead ==
    /\ pc = "loop"
    /\ i <= Len(files)
    /\ LET file_path == files[i]
           tp == _create_target_path(file_path.name)
       IN  IF tp.kind = "raise"
           THEN \* ValueError from datetime(): nothing in organize_files catches it
                /\ pc' = "aborted"
                /\ UNCHANGED <<loopvars, locals>>
           ELSE IF tp.kind = "none"
           THEN /\ results' = Append(results,
                       ProcessResult(file_path, NoPath, FALSE,
                                     "Could not parse date from filename",
                                     0 - 1, 0 - 1, 0 - 1, "None"))
                /\ failed' = failed + 1
                /\ i' = i + 1
                /\ UNCHANGED <<pc, files, created_folders, processed, locals>>
           ELSE IF Dispatch(preview_only, mode) = "preview"
           THEN /\ results' = Append(results,
                       ProcessResult(file_path, tp.path, TRUE, "None",
                                     0 - 1, 0 - 1, 0 - 1, "None"))
                /\ created_folders' = created_folders \cup {tp.path.folder}
                /\ processed' = processed + 1
                /\ i' = i + 1
                /\ UNCHANGED <<pc, files, failed, locals>>
           ELSE /\ target_path' = tp.path
                /\ pc' = Dispatch(preview_only, mode)
                /\ UNCHANGED <<loopvars, original_size, original, temp_path,
                               returncode, compressed_size, result>>
    /\ calls' = Append(calls, [current |-> i, total |-> Len(files),
                               current_file |-> files[i].name])
    /\ UNCHANGED <<config, tui, reportvars, layoutvars,
                   preview_only, fs, temps, dirs, fs0, dirs0, ret, prev, batchvars, faults>>

\* FoldersAfter adding the folder only for a file that succeeded.
FoldersAfterSuccessOnly(folders, res, tp) ==
    IF res.success THEN folders \cup {tp.folder} ELSE folders

\* created_folders.add(target_path.parent), after results.append(result)
FoldersAfter(folders, res, tp) == folders \cup {tp.folder}

\* A counter that goes up for every result, whatever its outcome.
TallyAlways(n, hit) == n + 1

\* if result.success: processed += 1, else: failed += 1 -- one counter per
\* branch, each going up where its test holds.
Tally(n, hit) == IF hit THEN n + 1 ELSE n

\* results.append(result) and the counting that ends one iteration.
LoopTail ==
    /\ pc = "append"
    /\ results' = Append(results, result)
    /\ created_folders' = FoldersAfter(created_folders, result, target_path)
    /\ processed' = Tally(processed, result.success)
    /\ failed' = Tally(failed, ~result.success)
    /\ i' = i + 1
    /\ pc' = "loop"
    /\ ClearLocals
    /\ UNCHANGED <<config, tui, reportvars, layoutvars,
                   preview_only, fs, temps, dirs, fs0, dirs0, files, ret, prev, calls, batchvars, faults>>

\* After the loop: the statistics, and the return.
OrganizeReturn ==
    /\ pc = "loop"
    /\ i > Len(files)
    /\ ret' = OrganizeResult(Len(files), processed, failed, created_folders, results)
    /\ pc' = "done"
    /\ UNCHANGED <<config, tui, reportvars, layoutvars,
                   preview_only, fs, temps, dirs, fs0, dirs0, loopvars,
                   locals, prev, calls, batchvars, faults>>

\* ------------------------------------------------- file-system primitives

\* shutil.move(src, dst) of a file onto the path dst: it needs the source
\* and the destination's directory; onto its own path it is a rename that
\* changes nothing; an existing destination is overwritten.
CanMove(f, d, src, dst) == Exists(f, src) /\ dst.folder \in d
MoveFs(f, src, dst) == IF src = dst THEN f ELSE Put(Remove(f, src), dst, f[src])

\* shutil.copy2(src, dst): as move, but a copy onto itself raises
\* SameFileError.
CanCopy(f, d, src, dst) == Exists(f, src) /\ dst.folder \in d /\ src # dst
CopyFs(f, src, dst) == Put(f, dst, f[src])

\* A fault may be injected while the budget lasts (none is in a run the TUI
\* starts).
MayFault == prog # "tui" /\ faults < MaxFaults

\* ------------------------------------------------ mode MOVE (lines 331-351)

MoveFailure(file_path) ==
    ProcessResult(file_path, target_path, FALSE, "exception", 0 - 1, 0 - 1, 0 - 1, "error")

\* The try block of the MOVE branch: mkdir, shutil.move, then
\* file_path.stat() on the path the file has just been moved away from.
MoveOnly ==
    /\ pc = "move"
    /\ LET file_path == files[i]
       IN  \/ \* mkdir raises
              /\ MayFault
              /\ faults' = faults + 1
              /\ result' = MoveFailure(file_path)
              /\ UNCHANGED <<fs, dirs>>
           \/ \* shutil.move raises
              /\ \/ ~Exists(fs, file_path) /\ UNCHANGED faults
                 \/ Exists(fs, file_path) /\ MayFault /\ faults' = faults + 1
              /\ dirs' = dirs \cup {target_path.folder}
              /\ result' = MoveFailure(file_path)
              /\ UNCHANGED fs
           \/ \* the move is done
              /\ Exists(fs, file_path)
              /\ dirs' = dirs \cup {target_path.folder}
              /\ fs' = MoveFs(fs, file_path, target_path)
              /\ result' =
                    IF Exists(fs', file_path)
                    THEN ProcessResult(file_path, target_path, TRUE, "None",
                                       Size(fs'[file_path]), Size(fs'[file_path]),
                                       0, "move_only")
                    ELSE \* stat() raises FileNotFoundError
                         MoveFailure(file_path)
              /\ UNCHANGED faults
    /\ pc' = "append"
    /\ UNCHANGED <<config, tui, reportvars, layoutvars,
                   preview_only, temps, fs0, dirs0, loopvars, target_path,
                   original_size, original, temp_path, returncode, compressed_size,
                   ret, prev, calls, batchvars>>

\* ----------------------------------- _optimize_with_pngquant (lines 166-290)

\* A test of the suffix that takes every file for a PNG.
is_png_always(p) == TRUE

\* source_path.suffix.lower() == '.png'
is_png(p) == \E s \in {NameString(p.name)} : Lower(Suffix(s)) = Dot \o Codes["png"]

\* original_size = source_path.stat().st_size, outside every try block.
OptStat ==
    /\ pc = "opt_stat"
    /\ LET source_path == files[i]
       IN  IF Exists(fs, source_path)
           THEN /\ original_size' = Size(fs[source_path])
                /\ original' = fs[source_path]
                /\ pc' = IF ~is_png(source_path) THEN "opt_nonpng" ELSE "opt_mktemp"
           ELSE /\ pc' = "aborted"
                /\ UNCHANGED <<original_size, original>>
    /\ UNCHANGED <<config, tui, reportvars, layoutvars,
                   preview_only, fs, temps, dirs, fs0, dirs0, loopvars,
                   target_path, temp_path, returncode, compressed_size, result,
                   ret, prev, calls, batchvars, faults>>

\* The branch for files that are not PNG: mkdir, then copy2 or move.
OptNonPng ==
    /\ pc = "opt_nonpng"
    /\ LET source_path == files[i]
           failure == ProcessResult(source_path, target_path, FALSE, "exception",
                                    original_size, 0 - 1, 0 - 1, "error")
           can == IF keep_original
                  THEN CanCopy(fs, dirs \cup {target_path.folder}, source_path, target_path)
                  ELSE CanMove(fs, dirs \cup {target_path.folder}, source_path, target_path)
       IN  \/ \* mkdir raises
              /\ MayFault
              /\ faults' = faults + 1
              /\ result' = failure
              /\ UNCHANGED <<fs, dirs>>
           \/ \* copy2 or move raises
              /\ \/ ~can /\ UNCHANGED faults
                 \/ can /\ MayFault /\ faults' = faults + 1
              /\ dirs' = dirs \cup {target_path.folder}
              /\ result' = failure
              /\ UNCHANGED fs
           \/ /\ can
              /\ dirs' = dirs \cup {target_path.folder}
              /\ fs' = IF keep_original THEN CopyFs(fs, source_path, target_path)
                       ELSE MoveFs(fs, source_path, target_path)
              /\ result' = ProcessResult(source_path, target_path, TRUE, "None",
                                         original_size, original_size, 0,
                                         "skipped_non_png")
              /\ UNCHANGED faults
    /\ pc' = "append"
    /\ UNCHANGED <<config, tui, reportvars, layoutvars,
                   preview_only, temps, fs0, dirs0, loopvars, target_path,
                   original_size, original, temp_path, returncode, compressed_size,
                   ret, prev, calls, batchvars>>

\* tempfile.NamedTemporaryFile(suffix='.png', delete=False): a new empty file.
OptMkTemp ==
    /\ pc = "opt_mktemp"
    /\ temp_path' = i
    /\ temps' = Put(temps, i, EmptyData)
    /\ pc' = "opt_copy"
    /\ UNCHANGED <<config, tui, reportvars, layoutvars,
                   preview_only, fs, dirs, fs0, dirs0, loopvars, target_path,
                   original_size, original, returncode, compressed_size, result,
                   ret, prev, calls, batchvars, faults>>

\* shutil.copy2(source_path, temp_path)
OptCopy ==
    /\ pc = "opt_copy"
    /\ LET source_path == files[i]
       IN  \/ /\ Exists(fs, source_path)
              /\ temps' = Put(temps, temp_path, fs[source_path])
              /\ pc' = "opt_run"
              /\ UNCHANGED faults
           \/ /\ \/ ~Exists(fs, source_path) /\ UNCHANGED faults
                 \/ Exists(fs, source_path) /\ MayFault /\ faults' = faults + 1
              /\ pc' = "opt_except"
              /\ UNCHANGED temps
    /\ UNCHANGED <<config, tui, reportvars, layoutvars,
                   preview_only, fs, dirs, fs0, dirs0, loopvars, target_path,
                   original_size, original, temp_path, returncode, compressed_size,
                   result, ret, prev, calls, batchvars>>

\* What pngquant --force --ext .png --skip-if-larger leaves in the file it
\* is given: rewritten on exit code 0, untouched otherwise.
Pngquant(data, rc) ==
    IF rc = 0 /\ data.ver # "empty" THEN Data(data.origin, "opt") ELSE data

\* subprocess.run(cmd, capture_output=True, text=True): FileNotFoundError
\* when the executable is absent, else the exit code.
OptRun ==
    /\ pc = "opt_run"
    /\ \/ /\ ~tool.present
          /\ pc' = "opt_except"
          /\ UNCHANGED <<temps, returncode>>
       \/ /\ tool.present
          /\ \E rc \in tool.exits :
                /\ returncode' = rc
                /\ temps' = Put(temps, temp_path, Pngquant(temps[temp_path], rc))
          /\ pc' = "opt_mkdir"
    /\ UNCHANGED <<config, tui, reportvars, layoutvars,
                   preview_only, fs, dirs, fs0, dirs0, loopvars, target_path,
                   original_size, original, temp_path, compressed_size, result,
                   ret, prev, calls, batchvars, faults>>

\* target_path.parent.mkdir(parents=True, exist_ok=True)
OptMkdir ==
    /\ pc = "opt_mkdir"
    /\ \/ /\ dirs' = dirs \cup {target_path.folder}
          /\ pc' = "opt_move"
          /\ UNCHANGED faults
       \/ /\ MayFault
          /\ faults' = faults + 1
          /\ pc' = "opt_except"
          /\ UNCHANGED dirs
    /\ UNCHANGED <<config, tui, reportvars, layoutvars,
                   preview_only, fs, temps, fs0, dirs0, loopvars, locals,
                   ret, prev, calls, batchvars>>

\* Both branches on result.returncode start the same way: (on 0, after
\* reading the size of the temp file) shutil.move(temp_path, target_path).
OptMoveTemp ==
    /\ pc = "opt_move"
    /\ \/ /\ target_path.folder \in dirs
          /\ compressed_size' = IF returncode = 0 THEN Size(temps[temp_path])
                                ELSE original_size
          /\ fs' = Put(fs, target_path, temps[temp_path])
          /\ temps' = Remove(temps, temp_path)
          /\ pc' = IF keep_original THEN "opt_result" ELSE "opt_unlink"
          /\ UNCHANGED faults
       \/ /\ MayFault
          /\ faults' = faults + 1
          /\ pc' = "opt_except"
          /\ UNCHANGED <<fs, temps, compressed_size>>
    /\ UNCHANGED <<config, tui, reportvars, layoutvars,
                   preview_only, dirs, fs0, dirs0, loopvars, target_path,
                   original_size, original, temp_path, returncode, result, ret, prev, calls, batchvars>>

\* if not self.keep_original: source_path.unlink()
OptUnlink ==
    /\ pc = "opt_unlink"
    /\ LET source_path == files[i]
       IN  \/ /\ Exists(fs, source_path)
              /\ fs' = Remove(fs, source_path)
              /\ pc' = "opt_result"
              /\ UNCHANGED faults
           \/ /\ \/ ~Exists(fs, source_path) /\ UNCHANGED faults
                 \/ Exists(fs, source_path) /\ MayFault /\ faults' = faults + 1
              /\ pc' = "opt_except"
              /\ UNCHANGED fs
    /\ UNCHANGED <<config, tui, reportvars, layoutvars,
                   preview_only, temps, dirs, fs0, dirs0, loopvars, locals,
                   ret, prev, calls, batchvars>>

\* The status the try block reports for an exit code.
StatusOfExit(rc) == IF rc = 0 THEN "optimized" ELSE "skipped_larger"

\* The ProcessResult of the try block: "optimized" on exit code 0, and
\* "skipped_larger" on every other exit code.
OptResult ==
    /\ pc = "opt_result"
    /\ result' =
          IF returncode = 0
          THEN ProcessResult(files[i], target_path, TRUE, "None", original_size,
                             compressed_size, Ratio(original_size, compressed_size),
                             StatusOfExit(returncode))
          ELSE ProcessResult(files[i], target_path, TRUE, "None", original_size,
                             original_size, 0, StatusOfExit(returncode))
    /\ pc' = "append"
    /\ UNCHANGED <<config, tui, reportvars, layoutvars,
                   preview_only, fs, temps, dirs, fs0, dirs0, loopvars,
                   target_path, original_size, original, temp_path, returncode,
                   compressed_size, ret, prev, calls, batchvars, faults>>

\* CleanTemp without the unlink: the handler forgets the temp file.
CleanTempLeaky(t, path) == t

\* except Exception: if temp_path.exists(): temp_path.unlink()
CleanTemp(t, path) == IF Exists(t, path) THEN Remove(t, path) ELSE t

OptExcept ==
    /\ pc = "opt_except"
    /\ temps' = CleanTemp(temps, temp_path)
    /\ pc' = "opt_fallback"
    /\ UNCHANGED <<config, tui, reportvars, layoutvars,
                   preview_only, fs, dirs, fs0, dirs0, loopvars, locals,
                   ret, prev, calls, batchvars, faults>>

\* The fallback: copy2 or move of the source itself to the target.
OptFallback ==
    /\ pc = "opt_fallback"
    /\ LET source_path == files[i]
           can == IF keep_original
                  THEN CanCopy(fs, dirs, source_path, target_path)
                  ELSE CanMove(fs, dirs, source_path, target_path)
       IN  \/ /\ can
              /\ fs' = IF keep_original THEN CopyFs(fs, source_path, target_path)
                       ELSE MoveFs(fs, source_path, target_path)
              /\ result' = ProcessResult(source_path, target_path, TRUE,
                                         "Optimization failed, fallback successful",
                                         original_size, original_size, 0,
                                         "error_fallback")
              /\ UNCHANGED faults
           \/ /\ \/ ~can /\ UNCHANGED faults
                 \/ can /\ MayFault /\ faults' = faults + 1
              /\ result' = ProcessResult(source_path, target_path, FALSE,
                                         "Both optimization and fallback failed",
                                         original_size, 0 - 1, 0 - 1, "error")
              /\ UNCHANGED fs
    /\ pc' = "append"
    /\ UNCHANGED <<config, tui, reportvars, layoutvars,
                   preview_only, temps, dirs, fs0, dirs0, loopvars, target_path,
                   original_size, original, temp_path, returncode, compressed_size,
                   ret, prev, calls, batchvars>>

\* --------------------------- PNGOptimizer (scripts/batch_png_optimizer.py)

\* directory.rglob("*.png") or directory.glob("*.png"): every PNG, whatever
\* its name, in the order the operating system lists them.
find_png_files(f, rec, nest) ==
    {p \in DOMAIN f : /\ Enumerated(p, rec, nest)
                      /\ Suffix(NameString(p.name)) = Dot \o Codes["png"]}

\* The orders a set can be listed in.
Orders(S) ==
    {q \in [1..Cardinality(S) -> S] : \A a, b \in 1..Cardinality(S) : a # b => q[a] # q[b]}

\* The optimized file written over the original whatever keep_original is.
backup_path_in_place(p) == p

\* file_path.with_suffix('.optimized.png')
backup_path(p) == [p EXCEPT !.name.optimized = TRUE]

\* process_directory: the PNG files are found and the loop starts; with no
\* PNG file it returns at once.
BatchStart ==
    /\ prog = "batch"
    /\ pc = "idle"
    /\ \E order \in Orders(find_png_files(fs, recursive, nested)) :
          /\ files' = order
          /\ pc' = IF order = <<>> THEN "done" ELSE "b_loop"
    /\ i' = 1
    /\ fs0' = fs
    /\ dirs0' = dirs
    /\ UNCHANGED <<config, tui, reportvars, layoutvars,
                   preview_only, fs, temps, dirs, results, created_folders,
                   processed, failed, locals, ret, prev, calls, batchvars, faults>>

\* The head of process_directory's loop; after the last file, the summary.
BatchLoop ==
    /\ pc = "b_loop"
    /\ pc' = IF i <= Len(files) THEN "b_stat" ELSE "done"
    /\ UNCHANGED <<config, tui, reportvars, layoutvars,
                   preview_only, fs, temps, dirs, fs0, dirs0, loopvars, locals,
                   ret, prev, calls, batchvars, faults>>

\* original_size = file_path.stat().st_size, inside the outer try.
BatchStat ==
    /\ pc = "b_stat"
    /\ LET file_path == files[i]
       IN  IF Exists(fs, file_path)
           THEN /\ original_size' = Size(fs[file_path])
                /\ original' = fs[file_path]
                /\ pc' = "b_mktemp"
                /\ UNCHANGED breturn
           ELSE /\ breturn' = Return4(FALSE, Codes["file access error: "], 0, 0)
                /\ pc' = "b_count"
                /\ UNCHANGED <<original_size, original>>
    /\ UNCHANGED <<config, tui, reportvars, layoutvars,
                   preview_only, fs, temps, dirs, fs0, dirs0, loopvars,
                   target_path, temp_path, returncode, compressed_size, result,
                   ret, prev, calls, stats, faults>>

BatchMkTemp ==
    /\ pc = "b_mktemp"
    /\ temp_path' = i
    /\ temps' = Put(temps, i, EmptyData)
    /\ pc' = "b_copy"
    /\ UNCHANGED <<config, tui, reportvars, layoutvars,
                   preview_only, fs, dirs, fs0, dirs0, loopvars, target_path,
                   original_size, original, returncode, compressed_size, result,
                   ret, prev, calls, batchvars, faults>>

\* shutil.copy2(file_path, temp_path)
BatchCopy ==
    /\ pc = "b_copy"
    /\ LET file_path == files[i]
       IN  \/ /\ Exists(fs, file_path)
              /\ is_file(fs, file_path)
              /\ temps' = Put(temps, temp_path, fs[file_path])
              /\ pc' = "b_run"
              /\ UNCHANGED faults
           \/ /\ \/ ~Exists(fs, file_path) /\ UNCHANGED faults
                 \/ Exists(fs, file_path) /\ ~is_file(fs, file_path) /\ UNCHANGED faults
                 \/ Exists(fs, file_path) /\ MayFault /\ faults' = faults + 1
              /\ pc' = "b_except"
              /\ UNCHANGED temps
    /\ UNCHANGED <<config, tui, reportvars, layoutvars,
                   preview_only, fs, dirs, fs0, dirs0, loopvars, target_path,
                   original_size, original, temp_path, returncode, compressed_size,
                   result, ret, prev, calls, batchvars>>

\* subprocess.run(cmd, ..., timeout=30): FileNotFoundError when pngquant is
\* absent, TimeoutExpired when it hangs, else the exit code.
BatchRun ==
    /\ pc = "b_run"
    /\ \/ /\ ~tool.present
          /\ pc' = "b_except"
          /\ UNCHANGED <<temps, returncode, faults>>
       \/ /\ tool.present
          /\ MayFault
          /\ faults' = faults + 1
          /\ pc' = "b_except"
          /\ UNCHANGED <<temps, returncode>>
       \/ /\ tool.present
          /\ \E rc \in tool.exits :
                /\ returncode' = rc
                /\ temps' = Put(temps, temp_path, Pngquant(temps[temp_path], rc))
          /\ pc' = "b_exit"
          /\ UNCHANGED faults
    /\ UNCHANGED <<config, tui, reportvars, layoutvars,
                   preview_only, fs, dirs, fs0, dirs0, loopvars, target_path,
                   original_size, original, temp_path, compressed_size, result,
                   ret, prev, calls, batchvars>>

\* The exit code pngquant uses for "the result would be larger".
SKIP_IF_LARGER == 98

\* What optimize_png does with the temp file for an exit code other than 0,
\* and what it returns.
BatchDeclined(rc, osize) ==
    IF rc = SKIP_IF_LARGER
    THEN Return4(TRUE, Codes["skipped (would be larger)"], osize, osize)
    ELSE Return4(FALSE, Codes["pngquant failed: "], osize, osize)

\* The three branches on result.returncode.
BatchExit ==
    /\ pc = "b_exit"
    /\ LET file_path == files[i]
           dest == IF keep_original THEN backup_path(file_path) ELSE file_path
       IN  IF returncode = 0 /\ original_size = 0
           THEN \* compression_ratio divides by original_size: ZeroDivisionError
                /\ pc' = "b_except"
                /\ UNCHANGED <<fs, temps, breturn, faults>>
           ELSE IF returncode = 0
           THEN \/ \* shutil.move(temp_path, file_path or backup_path)
                   /\ fs' = Put(fs, dest, temps[temp_path])
                   /\ temps' = Remove(temps, temp_path)
                   /\ \E csize \in {Size(temps[temp_path])} :
                         \E status \in
                               {IF keep_original
                                THEN OptimizedToStatus(NameString(dest.name),
                                                       original_size, csize)
                                ELSE OptimizedStatus(original_size, csize)} :
                            breturn' = Return4(TRUE, status, original_size, csize)
                   /\ pc' = "b_count"
                   /\ UNCHANGED faults
                \/ \* the move raises
                   /\ MayFault
                   /\ faults' = faults + 1
                   /\ pc' = "b_except"
                   /\ UNCHANGED <<fs, temps, breturn>>
           ELSE /\ temps' = Remove(temps, temp_path)
                /\ breturn' = BatchDeclined(returncode, original_size)
                /\ pc' = "b_count"
                /\ UNCHANGED <<fs, faults>>
    /\ UNCHANGED <<config, tui, reportvars, layoutvars,
                   preview_only, dirs, fs0, dirs0, loopvars, locals,
                   ret, prev, calls, stats>>

\* except Exception (inner): the temp file is removed if it exists.
BatchExcept ==
    /\ pc = "b_except"
    /\ temps' = CleanTemp(temps, temp_path)
    /\ breturn' = Return4(FALSE, Codes["processing error: "], original_size, original_size)
    /\ pc' = "b_count"
    /\ UNCHANGED <<config, tui, reportvars, layoutvars,
                   preview_only, fs, dirs, fs0, dirs0, loopvars, locals,
                   ret, prev, calls, stats, faults>>

\* word in status: the word stands somewhere in the status message
StatusHas(status, word) ==
    \E w \in {Codes[word]} :
        \E k \in 1..(Len(status) - Len(w) + 1) : SubSeq(status, k, k + Len(w) - 1) = w

\* The counters process_directory updates after optimize_png returns.
BatchCount ==
    /\ pc = "b_count"
    /\ stats' =
          [processed_files |-> stats.processed_files + 1,
           total_original_size |-> stats.total_original_size + breturn.original_size,
           total_compressed_size |-> stats.total_compressed_size + breturn.compressed_size,
           optimized_files |->
              IF breturn.success /\ StatusHas(breturn.status, "optimized")
                    /\ ~StatusHas(breturn.status, "skipped")
              THEN stats.optimized_files + 1 ELSE stats.optimized_files,
           skipped_files |->
              IF breturn.success
                    /\ ~(StatusHas(breturn.status, "optimized")
                            /\ ~StatusHas(breturn.status, "skipped"))
                    /\ StatusHas(breturn.status, "skipped")
              THEN stats.skipped_files + 1 ELSE stats.skipped_files,
           error_files |->
              IF breturn.success THEN stats.error_files ELSE stats.error_files + 1]
    /\ i' = i + 1
    /\ pc' = "b_loop"
    /\ ClearLocals
    /\ UNCHANGED <<config, tui, reportvars, layoutvars,
                   preview_only, fs, temps, dirs, fs0, dirs0, files, results,
                   created_folders, processed, failed, ret, prev, calls, breturn, faults>>

\* ------------------------------------------------------------ environment

\* Somebody else deletes a discovered file before its turn comes.
Vanish ==
    /\ pc \in {"loop", "b_loop"}
    /\ ~preview_only
    /\ i <= Len(files)
    /\ Exists(fs, files[i])
    /\ MayFault
    /\ faults' = faults + 1
    /\ fs' = Remove(fs, files[i])
    /\ UNCHANGED <<config, tui, reportvars, layoutvars,
                   preview_only, temps, dirs, fs0, dirs0, pc, loopvars,
                   locals, ret, prev, calls, batchvars>>

\* ------------------------------------------- generate_compression_report

\* A caller asks for the report on the OrganizeResult it holds: the result
\* of the run that has ended, or the one it was given.
GenerateReport ==
    /\ \/ prog = "report" /\ pc = "have_result"
       \/ prog = "organizer" /\ pc = "done"
    /\ Len(reports) < MaxReports
    /\ LET call == generate_compression_report(keep_original, ret)
       IN  /\ reports' = Append(reports, call.text)
           /\ ret' = call.result
    /\ given' = IF reports = <<>> THEN ret ELSE given
    /\ UNCHANGED <<config, tui, layoutvars, preview_only, fs, temps, dirs, fs0, dirs0,
                   pc, loopvars, locals, prev, calls, batchvars, faults>>

\* ------------------------------------------------------ find_best_layout

\* int(math.sqrt(n))
RECURSIVE IntSqrt(_, _)
IntSqrt(n, k) == IF (k + 1) * (k + 1) > n THEN k ELSE IntSqrt(n, k + 1)

\* The quotient rounded down where the code rounds it up.
Floor(a, b) == a \div b

\* math.ceil(a / b)
Ceil(a, b) == (a + b - 1) \div b

\* A score with the aspect ratio upside down: min / max.
ScoreInverted(n, r, c) ==
    LET hi == IF r > c THEN r ELSE c
        lo == IF r > c THEN c ELSE r
    IN  <<10 * lo + (r * c - n) * hi, 10 * hi>>

\* max(rows, cols) / min(rows, cols) + wasted_space * 0.1, as a fraction;
\* within MaxImages the floats of the code compare as these fractions do.
Score(n, r, c) ==
    LET hi == IF r > c THEN r ELSE c
        lo == IF r > c THEN c ELSE r
        wasted_space == r * c - n
    IN  <<10 * hi + wasted_space * lo, 10 * lo>>

\* score < best_ratio; every score is less than infinity
ScoreLess(a, b) == a[1] * b[2] < b[1] * a[2]

\* create_grid_image with scale_factor 1.0: the size of the blank output
\* image, (output_width, output_height).
output_size(sub_width, sub_height, rws, cols) == <<sub_width * cols, sub_height * rws>>

\* create_grid_image: where sub-image i is pasted, (dst_x, dst_y).
dst(k, sub_width, sub_height, cols) ==
    LET row == k \div cols
        col == k % cols
    IN  <<col * sub_width, row * sub_height>>

\* The early return, or the start of the loop over the row counts.
LayoutStart ==
    /\ prog = "layout"
    /\ pc = "idle"
    /\ IF num_images <= 0
       THEN /\ layout' = <<0, 0>>
            /\ pc' = "done"
            /\ UNCHANGED <<rows, best_ratio, best_layout>>
       ELSE /\ best_ratio' = Infinity
            /\ best_layout' = <<num_images, 1>>
            /\ rows' = 1
            /\ pc' = "l_loop"
            /\ UNCHANGED layout
    /\ UNCHANGED <<config, tui, reportvars, num_images, preview_only, fs, temps, dirs,
                   fs0, dirs0, loopvars, locals, ret, prev, calls, batchvars, faults>>

\* One pass of for rows in range(1, max_rows).
LayoutStep ==
    /\ pc = "l_loop"
    /\ rows < IntSqrt(num_images, 0) + 2
    /\ LET cols == Ceil(num_images, rows)
           score == Score(num_images, rows, cols)
       IN  IF ScoreLess(score, best_ratio)
           THEN /\ best_ratio' = score
                /\ best_layout' = <<rows, cols>>
           ELSE UNCHANGED <<best_ratio, best_layout>>
    /\ rows' = rows + 1
    /\ UNCHANGED <<config, tui, reportvars, num_images, layout, preview_only, fs, temps,
                   dirs, fs0, dirs0, pc, loopvars, locals, ret, prev, calls,
                   batchvars, faults>>

\* return best_layout
LayoutReturn ==
    /\ pc = "l_loop"
    /\ rows >= IntSqrt(num_images, 0) + 2
    /\ layout' = best_layout
    /\ pc' = "done"
    /\ UNCHANGED <<config, tui, reportvars, num_images, rows, best_ratio, best_layout,
                   preview_only, fs, temps, dirs, fs0, dirs0, loopvars, locals, ret,
                   prev, calls, batchvars, faults>>

\* ------------------------- ScreenshotOrganizerApp (tools/screenshot/tui.py)

\* ScreenshotOrganizer.__init__
ScreenshotOrganizer(source_dir, target_dir, md, rec, keep) ==
    [source_dir |-> source_dir, target_dir |-> target_dir, mode |-> md,
     recursive |-> rec, keep_original |-> keep]

\* refresh_organizer: a new organizer from source_dir, target_dir and
\* current_mode; recursive and keep_original are left at their defaults.
refresh_organizer(app) ==
    [app EXCEPT !.organizer = ScreenshotOrganizer(app.source_dir, app.target_dir,
                                                  app.current_mode, FALSE, FALSE)]

\* scan_files: files_found from the organizer's discovery; when the
\* discovery raises, the attribute keeps its value.
scan_files(app, f) ==
    IF app.organizer = NoOrganizer THEN [raised |-> FALSE, app |-> app]
    ELSE LET found == find_screenshot_files(app.organizer.source_dir, f,
                                            app.organizer.recursive,
                                            app.organizer.target_dir = "inside")
         IN  IF found.kind = "raise" THEN [raised |-> TRUE, app |-> app]
             ELSE [raised |-> FALSE,
                   app |-> [app EXCEPT !.files_found = Len(found.files)]]

\* A handler that ends with scan_files: an exception no one catches ends
\* the app.
Scanned(app, f) ==
    LET scan == scan_files(app, f)
    IN  IF scan.raised THEN [scan.app EXCEPT !.exited = TRUE] ELSE scan.app

\* run_worker(work) without exclusive=True: the worker joins the others.
run_worker_shared(workers, kind) ==
    Append(workers, [kind |-> kind, state |-> "pending"])

\* run_worker(work, exclusive=True): the workers that have not started are
\* cancelled (a started one runs on to its end: it never awaits), and the
\* new one waits for its start.
run_worker(workers, kind) ==
    Append(SelectSeq(workers, LAMBDA w : w.state # "pending"),
           [kind |-> kind, state |-> "pending"])

\* The user can send an event: the app is mounted and running.
CanSend ==
    /\ prog = "tui"
    /\ tui.organizer # NoOrganizer
    /\ ~tui.exited
    /\ tui.events < MaxEvents

\* The app after the handler of one more event.
Handled(app) == [app EXCEPT !.events = tui.events + 1]

\* Everything but the app.
callvars == <<config, preview_only, fs, temps, dirs, fs0, dirs0, pc, loopvars, locals,
              ret, prev, calls, batchvars, faults, reportvars, layoutvars>>

\* on_mount
Mount ==
    /\ prog = "tui"
    /\ tui.organizer = NoOrganizer
    /\ ~tui.exited
    /\ tui' = Scanned(refresh_organizer(tui), fs)
    /\ UNCHANGED callvars

\* on_scan_pressed
ScanPressed ==
    /\ CanSend
    /\ tui' = Handled(Scanned(tui, fs))
    /\ UNCHANGED callvars

\* on_preview_pressed and on_start_pressed: nothing while is_processing is
\* set or there is no organizer, else a worker for the coroutine.
Pressed(kind) ==
    /\ CanSend
    /\ tui' = IF tui.is_processing \/ tui.organizer = NoOrganizer
              THEN Handled([tui EXCEPT !.ignored = tui.ignored + 1])
              ELSE Handled([tui EXCEPT !.workers = run_worker(tui.workers, kind)])
    /\ UNCHANGED callvars

\* on_exit_pressed
ExitPressed ==
    /\ CanSend
    /\ tui' = Handled([tui EXCEPT !.exited = TRUE])
    /\ UNCHANGED callvars

\* on_mode_move_pressed
ModeMovePressed ==
    /\ CanSend
    /\ tui' = Handled(refresh_organizer([tui EXCEPT !.current_mode = "move"]))
    /\ UNCHANGED callvars

\* on_mode_copy_pressed
ModeCopyPressed ==
    /\ CanSend
    /\ tui' = Handled(refresh_organizer([tui EXCEPT !.current_mode = "optimize_move",
                                                    !.keep_original = TRUE]))
    /\ UNCHANGED callvars

\* on_source_changed: the path typed is a directory or a file.
SourceChanged(value) ==
    /\ CanSend
    /\ tui' = Handled(refresh_organizer([tui EXCEPT !.source_dir = value]))
    /\ UNCHANGED callvars

\* on_target_changed: a folder inside source_dir or one outside it, typed
\* while no target folder holds anything yet.
TargetChanged(value) ==
    /\ CanSend
    /\ dirs = {}
    /\ \A p \in DOMAIN fs : p.loc # "target"
    /\ tui' = Handled(refresh_organizer([tui EXCEPT !.target_dir = value]))
    /\ UNCHANGED callvars

\* A worker's coroutine starts: self.is_processing = True.
WorkerStart ==
    /\ prog = "tui"
    /\ \E k \in 1..Len(tui.workers) :
          /\ tui.workers[k].state = "pending"
          /\ tui' = [tui EXCEPT !.is_processing = TRUE,
                                !.workers[k].state = "started"]
    /\ UNCHANGED callvars

\* self.organizer.organize_files(preview_only=...), with the settings of
\* the organizer the app holds now.
WorkerCall ==
    /\ prog = "tui"
    /\ pc = "idle"
    /\ \E k \in 1..Len(tui.workers) :
          /\ tui.workers[k].state = "started"
          /\ tui' = [tui EXCEPT !.workers[k].state = "calling"]
          /\ mode' = tui.organizer.mode
          /\ keep_original' = tui.organizer.keep_original
          /\ recursive' = tui.organizer.recursive
          /\ root' = tui.organizer.source_dir
          /\ nested' = (tui.organizer.target_dir = "inside")
          /\ BeginCall(tui.workers[k].kind = "preview", root', recursive', nested')
    /\ UNCHANGED <<prog, tool, layoutvars, fs, temps, dirs, locals, prev, batchvars,
                   faults>>

\* The call has returned or raised: update_results and, after a real run,
\* scan_files (whose exception is caught here), then the finally clause:
\* self.is_processing = False.
WorkerEnd ==
    /\ prog = "tui"
    /\ pc \in {"done", "aborted"}
    /\ \E k \in 1..Len(tui.workers) :
          /\ tui.workers[k].state = "calling"
          /\ LET scanned == IF pc = "done" /\ tui.workers[k].kind = "organize"
                            THEN scan_files(tui, fs).app ELSE tui
             IN  tui' = [scanned EXCEPT !.is_processing = FALSE,
                                        !.ended = tui.ended + 1,
                                        !.workers = SelectSeq(tui.workers,
                                                     LAMBDA w : w.state # "calling")]
    /\ pc' = "idle"
    /\ UNCHANGED <<config, preview_only, fs, temps, dirs, fs0, dirs0, loopvars, locals,
                   ret, prev, calls, batchvars, faults, reportvars, layoutvars>>

Next ==
    \/ \E pv \in BOOLEAN : OrganizeStart(pv)
    \/ LoopHead
    \/ LoopTail
    \/ OrganizeReturn
    \/ MoveOnly
    \/ OptStat
    \/ OptNonPng
    \/ OptMkTemp
    \/ OptCopy
    \/ OptRun
    \/ OptMkdir
    \/ OptMoveTemp
    \/ OptUnlink
    \/ OptResult
    \/ OptExcept
    \/ OptFallback
    \/ BatchStart
    \/ BatchLoop
    \/ BatchStat
    \/ BatchMkTemp
    \/ BatchCopy
    \/ BatchRun
    \/ BatchExit
    \/ BatchExcept
    \/ BatchCount
    \/ Vanish
    \/ GenerateReport
    \/ LayoutStart
    \/ LayoutStep
    \/ LayoutReturn
    \/ Mount
    \/ ScanPressed
    \/ \E kind \in {"organize", "preview"} : Pressed(kind)
    \/ ExitPressed
    \/ ModeMovePressed
    \/ ModeCopyPressed
    \/ \E value \in {"dir", "file"} : SourceChanged(value)
    \/ \E value \in {"inside", "outside"} : TargetChanged(value)
    \/ WorkerStart
    \/ WorkerCall
    \/ WorkerEnd

Spec == Init /\ [][Next]_vars

\* ----------------------------------------------------------------- claims

\* A run of the organizer that is not a preview.
RealRun == prog = "organizer" /\ ~preview_only /\ pc # "idle"

\* The steps of _optimize_with_pngquant for a PNG, from the creation of the
\* temp file to the ProcessResult.
PngSteps == {"opt_mktemp", "opt_copy", "opt_run", "opt_mkdir", "opt_move",
             "opt_unlink", "opt_result", "opt_except", "opt_fallback"}

\* The optimization step has returned for a PNG and its result waits to be
\* appended.
PngReturned ==
    /\ prog = "organizer"
    /\ pc = "append"
    /\ mode = "optimize_move"
    /\ Lower(Suffix(NameString(files[i].name))) = Dot \o Codes["png"]

\* C1: organize_files(preview_only=False) never aborts because of one file:
\* whatever fails for a file, it returns an OrganizeResult with exactly one
\* outcome per discovered file, in discovery order.
C1_NeverAborts ==
    RealRun =>
        /\ pc # "aborted"
        /\ ret.returned =>
              /\ Len(ret.results) = Len(files)
              /\ \A k \in 1..Len(files) : ret.results[k].source_path = files[k]

\* C2: while _optimize_with_pngquant processes a PNG, and when it has
\* returned, the original bytes are intact at the source path or a complete
\* copy (original or optimized) of them is at the destination.
C2_OriginalNeverLost ==
    (prog = "organizer" /\ (pc \in PngSteps \/ PngReturned)) =>
        \/ Exists(fs, files[i]) /\ fs[files[i]] = original
        \/ Exists(fs, target_path) /\ fs[target_path].origin = original.origin

\* C3: whenever the optimization step (of the organizer or of the batch
\* optimizer) is not running, on whichever path it returned, no temporary
\* staging file exists.
C3_NoTempLeak ==
    (pc \in {"idle", "loop", "append", "done", "aborted", "b_loop", "b_count"}) =>
        DOMAIN temps = {}

\* C3 witness: the step created a temp file, the optimization failed, the
\* fallback failed too, and the step has returned.
C3_Witness ==
    /\ PngReturned
    /\ temp_path > 0
    /\ result.error_message = "Both optimization and fallback failed"

\* C4: in optimize mode with pngquant absent from the host, organize_files
\* (given at least one candidate) fails at startup: no temp file is made, no
\* file or folder appears, no per-file outcome is recorded and no
\* OrganizeResult is returned.
C4_ToolAbsentIsStartupError ==
    (RealRun /\ mode = "optimize_move" /\ ~tool.present /\ Len(files) > 0) =>
        /\ DOMAIN temps = {}
        /\ DOMAIN fs \subseteq DOMAIN fs0
        /\ dirs = dirs0
        /\ results = <<>>
        /\ ~ret.returned

\* C5: with a pngquant that always exits non-zero (and nothing else going
\* wrong), every PNG ends as error-with-fallback-success, is present at its
\* destination, and has original_size = compressed_size.
C5_NonZeroExitIsFallback ==
    (PngReturned /\ tool.present /\ 0 \notin tool.exits /\ faults = 0) =>
        /\ result.pngquant_status = "error_fallback"
        /\ result.success
        /\ Exists(fs, target_path)
        /\ result.original_size = result.compressed_size

\* C6: the optimization step tells pngquant's "would be larger" exit code
\* from every other non-zero exit code: the former is reported as skipped,
\* the latter as an error.
C6_DeclinedIsNotFailure ==
    (pc \in {"append", "b_count"} /\ returncode > 0 /\ faults = 0) =>
        IF prog = "organizer"
        THEN IF returncode = SKIP_IF_LARGER
             THEN result.pngquant_status = "skipped_larger"
             ELSE HasError(result.pngquant_status)
        ELSE IF returncode = SKIP_IF_LARGER
             THEN breturn.success /\ breturn.status = Codes["skipped (would be larger)"]
             ELSE ~breturn.success

\* C7: after a run that is not a preview (and nothing else going wrong), with
\* keep_original every discovered file is still at its path, unchanged, and
\* a copy is at its destination, in both modes; without keep_original every
\* successfully processed file is gone from its path (unless that path is
\* its destination).
C7_KeepOriginalKeeps ==
    (RealRun /\ pc = "done" /\ faults = 0) =>
        \A k \in 1..Len(files) :
            IF keep_original
            THEN /\ Exists(fs, files[k])
                 /\ fs[files[k]] = fs0[files[k]]
                 /\ Exists(fs, results[k].target_path)
            ELSE (results[k].success /\ results[k].target_path # files[k])
                    => ~Exists(fs, files[k])

\* C8: in mode MOVE (and nothing else going wrong), every file whose move to
\* its destination succeeded has a successful move_only outcome with equal
\* sizes, and is counted in processed_files.
C8_MoveOnlySucceeds ==
    (RealRun /\ mode = "move" /\ pc = "done" /\ faults = 0) =>
        /\ \A k \in 1..Len(files) :
              (/\ Exists(fs, results[k].target_path)
               /\ fs[results[k].target_path].origin = files[k]) =>
                    /\ results[k].success
                    /\ results[k].pngquant_status = "move_only"
                    /\ results[k].original_size = results[k].compressed_size
        /\ ret.processed_files = CountSuccess(results, TRUE)
        /\ ret.failed_files = CountSuccess(results, FALSE)

\* C9: a preview touches nothing: while and after organize_files(True) runs,
\* every file and folder is as it was, no temp file exists, the program is
\* never inside the optimization step or the move, and when it returns every
\* discovered file with a resolvable destination is recorded as a success
\* with that destination.
C9_PreviewTouchesNothing ==
    (prog = "organizer" /\ preview_only /\ pc # "idle") =>
        /\ fs = fs0
        /\ dirs = dirs0
        /\ DOMAIN temps = {}
        /\ pc \in {"loop", "done", "aborted"}
        /\ pc = "done" =>
              /\ ret.returned
              /\ Len(ret.results) = Len(files)
              /\ \A k \in 1..Len(files) :
                    LET tp == _create_target_path(files[k].name)
                    IN  tp.kind = "path" =>
                            /\ ret.results[k].success
                            /\ ret.results[k].target_path = tp.path

\* C9 witness: a preview of a source directory with two candidates returned.
C9_Witness ==
    /\ prog = "organizer"
    /\ preview_only
    /\ pc = "done"
    /\ Len(ret.results) >= 2

\* C10: a run that follows a preview of the same tree reports, file by file,
\* the target paths the preview reported, and the same created_folders.
C10_PreviewAgreesWithRun ==
    (RealRun /\ pc = "done" /\ prev.returned) =>
        /\ Len(ret.results) = Len(prev.results)
        /\ \A k \in 1..Len(ret.results) :
              /\ ret.results[k].source_path = prev.results[k].source_path
              /\ ret.results[k].target_path = prev.results[k].target_path
        /\ ret.created_folders = prev.created_folders

\* C10 witness: the run after the preview processed two files, and one of
\* them failed.
C10_Witness ==
    /\ RealRun
    /\ pc = "done"
    /\ prev.returned
    /\ Len(ret.results) >= 2
    /\ \E k \in 1..Len(ret.results) : ~ret.results[k].success
    /\ \E k \in 1..Len(ret.results) : ret.results[k].success

\* The source directory held, when the run started, exactly two files at its
\* top level: n, and the file "notes.png" whose name has no match.
TwoFilesOneMatching(n) ==
    /\ root = "dir"
    /\ DOMAIN fs0 = {SrcPath("root", n), SrcPath("root", Notes)}

\* "notes.png" is where it was, with the bytes it had.
NotesUntouched ==
    /\ Exists(fs, SrcPath("root", Notes))
    /\ fs[SrcPath("root", Notes)] = fs0[SrcPath("root", Notes)]

\* C11 as stated: with one matching and one non-matching file a run that is
\* no preview returns processed_files = 1 and failed_files = 1, and the
\* non-matching file is untouched.
C11_CannotClassifyCounted ==
    (RealRun /\ pc = "done" /\ \E n \in {ShotA, ShotB, ShotC} : TwoFilesOneMatching(n)) =>
        /\ ret.processed_files = 1
        /\ ret.failed_files = 1
        /\ NotesUntouched

\* C11, as the code has it: the non-matching file is not discovered, so the
\* run reports one file and one result, that of the matching file;
\* failed_files is 1 only when the matching file itself failed; the
\* non-matching file is untouched.
C11_NonMatchingNotDiscovered ==
    \A n \in {ShotA, ShotB, ShotC} :
        (RealRun /\ pc = "done" /\ TwoFilesOneMatching(n)) =>
            /\ ret.total_files = 1
            /\ Len(ret.results) = 1
            /\ ret.results[1].source_path = SrcPath("root", n)
            /\ ret.processed_files = (IF ret.results[1].success THEN 1 ELSE 0)
            /\ ret.failed_files = (IF ret.results[1].success THEN 0 ELSE 1)
            /\ NotesUntouched

\* C11 witness: the run of the two-file directory returned, with the
\* matching file processed.
C11_Witness ==
    /\ RealRun
    /\ pc = "done"
    /\ TwoFilesOneMatching(ShotA)
    /\ ret.processed_files = 1
    /\ ret.failed_files = 0

\* C12: when source_dir is a regular file, organize_files fails at discovery,
\* recursive or not: it returns nothing, reports no file, and nothing on
\* disk has changed.
C12_InvalidRootFails ==
    (prog = "organizer" /\ root = "file" /\ pc # "idle") =>
        /\ pc = "aborted"
        /\ ~ret.returned
        /\ files = <<>>
        /\ fs = fs0
        /\ dirs = dirs0

\* The tree held no candidate when the running call started.
NoCandidate ==
    \A p \in DOMAIN fs0 :
        \/ fs0[p].ver = "dir"
        \/ ~p.name.match
        \/ p.name.ext \notin {"png", "PNG", "jpg"}
        \/ p.loc # "root" /\ ~recursive
        \/ p.loc = "target" /\ ~nested

\* C13: when source_dir does not exist or holds no candidate, discovery
\* returns the empty list without error, and organize_files returns zero
\* counts, no result and no created folder, and creates no directory.
C13_EmptySourceIsNormal ==
    (/\ prog = "organizer"
     /\ pc # "idle"
     /\ root = "missing" \/ (root = "dir" /\ NoCandidate)) =>
        /\ pc \in {"loop", "done"}
        /\ files = <<>>
        /\ dirs = dirs0
        /\ DOMAIN temps = {}
        /\ pc = "done" =>
              /\ ret.returned
              /\ ret.total_files = 0
              /\ ret.processed_files = 0
              /\ ret.failed_files = 0
              /\ ret.results = <<>>
              /\ ret.created_folders = {}

\* C13 witness: a run, not recursive, of a source_dir that does not exist
\* has returned.
C13_Witness ==
    /\ RealRun
    /\ root = "missing"
    /\ ~recursive
    /\ pc = "done"
    /\ ret.returned

\* Discovery has returned a list for a source_dir that is a directory.
Discovered == prog = "organizer" /\ root = "dir" /\ pc # "idle"

\* The same, and the loop has not begun: the list and the tree it was made
\* from do not change until the call is over.
JustDiscovered == Discovered /\ pc = "loop" /\ i = 1 /\ calls = <<>>

\* What a file of the tree is, read from how its name and place were
\* written: a regular file, at the top level or (recursive) below it, with
\* the marker in its name and a suffix that is, in lower case, one of the
\* set.
IsCandidate(p) ==
    /\ fs0[p].ver # "dir"
    /\ p.name.match
    /\ p.name.ext \in {"png", "PNG", "jpg", "jpeg", "gif", "bmp", "tiff", "webp"}
    /\ \/ p.loc = "root"
       \/ recursive /\ p.loc = "sub"
       \/ recursive /\ nested /\ p.loc = "target"

\* C14: find_screenshot_files returns exactly the regular files under
\* source_dir (the top level only unless recursive) with a suffix of the set,
\* in any case, and a match of the pattern in the name, each of them once.
C14_DiscoveryIsExact ==
    JustDiscovered =>
        /\ {files[k] : k \in 1..Len(files)} = {p \in DOMAIN fs0 : IsCandidate(p)}
        /\ \A j, k \in 1..Len(files) : files[j] = files[k] => j = k

\* C14 witness: a discovery that is not recursive returned the top-level
\* file and left out the file of the same name in the subdirectory.
C14_Witness ==
    /\ JustDiscovered
    /\ ~recursive
    /\ DOMAIN fs0 = {SrcPath("root", ShotA), SrcPath("sub", ShotA)}
    /\ files = <<SrcPath("root", ShotA)>>

\* C15 as stated: the list is in ascending order of the full path string,
\* recursive or not.
C15_SortedByPathString ==
    JustDiscovered =>
        \A k \in 1..(Len(files) - 1) :
            LexLess(PathString(files[k]), PathString(files[k + 1]))

\* C15, as the code has it: the list is in ascending order of the paths
\* compared part by part (which is the order of the parts joined by a
\* character below every other one); that is the order of the full path
\* strings when the discovery is not recursive.
C15_SortedByParts ==
    JustDiscovered =>
        \A k \in 1..(Len(files) - 1) :
            /\ LexLess(JoinWith(Parts(files[k]), <<0>>),
                       JoinWith(Parts(files[k + 1]), <<0>>))
            /\ ~recursive =>
                  LexLess(PathString(files[k]), PathString(files[k + 1]))

\* C15 witness: a recursive discovery listed the file in the subdirectory
\* "Screenshot" before the top-level file "Screenshot 2023-03-15 at.png".
C15_Witness ==
    /\ JustDiscovered
    /\ recursive
    /\ files = <<SrcPath("sub", ShotA), SrcPath("root", ShotA)>>

\* C16: _parse_date_from_filename returns the digits of the first match as
\* integers, whatever stands around it, and None for a name with no match;
\* the folder of every target path carries that year and month.
C16_ParsesFirstMatch ==
    Discovered =>
        /\ JustDiscovered =>
              \A p \in DOMAIN fs0 :
                  _parse_date_from_filename(p.name) =
                      (IF p.name.match THEN <<p.name.y, p.name.m, p.name.d>> ELSE None3)
        /\ \A k \in 1..Len(results) :
              results[k].target_path # NoPath =>
                  /\ results[k].target_path.folder.year = files[k].name.y
                  /\ results[k].target_path.folder.month = files[k].name.m

\* C16 witness: the file named with two markers got its result, under the
\* date of the first.
C16_Witness ==
    /\ Discovered
    /\ Len(results) = 1
    /\ files[1].name = ShotTwice
    /\ results[1].target_path.folder.year = 2021

\* The digits of a name with the marker are a calendar date: a year from 1
\* on, a month of 1..12 and a day the month has.
DaysOf(y, m) ==
    IF m \in {1, 3, 5, 7, 8, 10, 12} THEN 31
    ELSE IF m \in {4, 6, 9, 11} THEN 30
    ELSE IF (y % 4 = 0 /\ y % 100 # 0) \/ y % 400 = 0 THEN 29 ELSE 28

IsDate(n) ==
    /\ n.match
    /\ n.y >= 1
    /\ n.m \in 1..12
    /\ n.d \in 1..DaysOf(n.y, n.m)

\* C17 as stated: _create_target_path returns None exactly when
\* _parse_date_from_filename does, and a path for every other name.
C17_PathUnlessNoMatch ==
    JustDiscovered =>
        \A p \in DOMAIN fs0 :
            LET parsed == _parse_date_from_filename(p.name)
                made   == _create_target_path(p.name)
            IN  /\ made.kind = "none" <=> parsed = None3
                /\ parsed # None3 => made.kind = "path"

\* C17, as the code has it: _create_target_path returns None exactly when
\* _parse_date_from_filename does; it returns a path, with the name as its
\* last part, for every name whose digits are a calendar date, and raises
\* for a name whose digits are none; organize_files stops at such a file
\* with no target path.
C17_PathForDatesOnly ==
    Discovered =>
        /\ JustDiscovered =>
              \A p \in DOMAIN fs0 :
                  LET parsed == _parse_date_from_filename(p.name)
                      made   == _create_target_path(p.name)
                  IN  /\ made.kind = "none" <=> parsed = None3
                      /\ IsDate(p.name) => made.kind = "path" /\ made.path.name = p.name
                      /\ (p.name.match /\ ~IsDate(p.name)) =>
                            made.kind = "raise" /\ made.path = NoPath
        /\ (preview_only /\ pc = "aborted") =>
              /\ i <= Len(files)
              /\ files[i].name.match
              /\ ~IsDate(files[i].name)
              /\ target_path = NoPath

\* C17 witness: a preview stopped at the file named for 30 February.
C17_Witness ==
    /\ Discovered
    /\ preview_only
    /\ pc = "aborted"
    /\ files[i].name = ShotFeb30

\* The month or the day of the name's digits is out of range.
BadMonthOrDay(n) ==
    /\ n.match
    /\ n.m \notin 1..12 \/ n.d \notin 1..DaysOf(n.y, n.m)

\* C18: for a name whose month is outside 1..12 or whose day the month does
\* not have, no target path is produced and no month name is looked up: the
\* run stops at that file, no result, no created folder and no directory
\* carries such a month, and month 00 is nowhere December.
C18_BadDateRaises ==
    Discovered =>
        /\ \A k \in 1..Len(files) :
              BadMonthOrDay(files[k].name) =>
                  /\ JustDiscovered => _create_target_path(files[k].name).kind = "raise"
                  /\ i <= k
                  /\ Len(results) < k
                  /\ i = k => (pc \in {"loop", "aborted"} /\ target_path = NoPath)
        /\ \A f \in created_folders \cup dirs \cup {target_path.folder} :
              f # NoFolder => f.month \in 1..12 /\ f.mname = months[f.month]

\* C18 witness: the run stopped at the file named for month 00.
C18_Witness ==
    /\ Discovered
    /\ pc = "aborted"
    /\ files[i].name = ShotZero
    /\ Len(calls) = 1

\* The ISO-8601 week of a date, computed from the day of the year and the
\* weekday: the week of a date is that of its Thursday.
DecemberEnd(y) == (y + (y \div 4) - (y \div 100) + (y \div 400)) % 7

WeeksIn(y) == IF DecemberEnd(y) = 4 \/ DecemberEnd(y - 1) = 3 THEN 53 ELSE 52

DayOfYear(y, m, d) ==
    LET before == <<0, 31, 59, 90, 120, 151, 181, 212, 243, 273, 304, 334>>
        leap   == (y % 4 = 0 /\ y % 100 # 0) \/ y % 400 = 0
    IN  before[m] + d + (IF leap /\ m > 2 THEN 1 ELSE 0)

Iso8601Week(y, m, d) ==
    LET doy == DayOfYear(y, m, d)
        wd0 == (DecemberEnd(y - 1) + doy) % 7
        wd  == IF wd0 = 0 THEN 7 ELSE wd0
        w   == (doy - wd + 10) \div 7
    IN  IF w < 1 THEN WeeksIn(y - 1)
        ELSE IF w > WeeksIn(y) THEN 1
        ELSE w

MonthText(m) ==
    CASE m = 1 -> "January" [] m = 2 -> "February" [] m = 3 -> "March"
      [] m = 4 -> "April" [] m = 5 -> "May" [] m = 6 -> "June"
      [] m = 7 -> "July" [] m = 8 -> "August" [] m = 9 -> "September"
      [] m = 10 -> "October" [] m = 11 -> "November" [] m = 12 -> "December"

\* The two folder names the claim gives for name n and path tp.
FolderNamesFor(n) ==
    << Decimal(n.y) \o Dash \o Pad(n.m, 2) \o Dash \o Codes[MonthText(n.m)],
       Codes["Week"] \o Pad(Iso8601Week(n.y, n.m, n.d), 2) >>

TargetIsFor(tp, n) ==
    /\ tp.loc = "target"
    /\ tp.name = n
    /\ FolderStrings(tp.folder) = FolderNamesFor(n)
    /\ n = ShotC =>
          FolderStrings(tp.folder) =
              << <<50, 48, 50, 49, 45, 48, 49, 45, 74, 97, 110, 117, 97, 114, 121>>,
                 <<87, 101, 101, 107, 53, 51>> >>
    /\ n = ShotA =>
          FolderStrings(tp.folder) =
              << <<50, 48, 50, 51, 45, 48, 51, 45, 77, 97, 114, 99, 104>>,
                 <<87, 101, 101, 107, 49, 49>> >>

\* C19: the target path of a file whose name carries a valid date is
\* target_dir / "{year}-{month:02}-{month name}" / "Week{NN}" / filename with
\* NN the ISO-8601 week of the date: "2021-01-January", "Week53" for
\* 2021-01-01 and "2023-03-March", "Week11" for 2023-03-15.
C19_IsoWeekFolder ==
    Discovered =>
        /\ pc = "append" => TargetIsFor(result.target_path, files[i].name)
        /\ (pc = "loop" /\ Len(results) > 0) =>
              TargetIsFor(results[Len(results)].target_path, files[Len(results)].name)
        /\ pc = "done" =>
              \A k \in 1..Len(ret.results) :
                  IsDate(files[k].name) =>
                      TargetIsFor(ret.results[k].target_path, files[k].name)

\* C19 witness: the file of 1 January 2021 got its result.
C19_Witness ==
    /\ Discovered
    /\ Len(results) >= 1
    /\ \E k \in 1..Len(results) :
          files[k].name = ShotC /\ results[k].target_path.folder.week = 53

\* C20: the progress callback is called once for every discovered file, in
\* the order of discovery, with current = 1, 2, ... and total = the number
\* of files; the call for a file comes after the outcome of the file before
\* it; and when the run is over every file has had its call.
C20_CallbackOncePerFile ==
    prog = "organizer" =>
        /\ Len(calls) <= Len(files)
        /\ \A k \in 1..Len(calls) :
              /\ calls[k].current = k
              /\ calls[k].total = Len(files)
              /\ calls[k].current_file = files[k].name
              /\ 1 <= calls[k].current /\ calls[k].current <= calls[k].total
        /\ Len(results) <= Len(calls)
        /\ Len(calls) <= Len(results) + 1
        /\ pc \in {"done", "aborted"} => Len(calls) = Len(files)

\* C20 without its last part: the calls made so far are the first calls of
\* the claim, each after the outcome of the file before.
C20_CallsSoFar ==
    prog = "organizer" =>
        /\ Len(calls) <= Len(files)
        /\ \A k \in 1..Len(calls) :
              /\ calls[k].current = k
              /\ calls[k].total = Len(files)
              /\ calls[k].current_file = files[k].name
        /\ Len(results) <= Len(calls)
        /\ Len(calls) <= Len(results) + 1
        /\ pc = "done" => Len(calls) = Len(files)

\* C22: in every OrganizeResult total_savings is total_original_size minus
\* total_compressed_size and is the sum of original_size - compressed_size
\* over the results that report both sizes; a failed result, which reports
\* no compressed size, adds nothing to it.
C22_TotalsConsistent ==
    (prog = "organizer" /\ pc = "done") =>
        LET both == [k \in 1..Len(ret.results) |->
                        IF ret.results[k].original_size >= 0
                           /\ ret.results[k].compressed_size >= 0
                        THEN ret.results[k].original_size - ret.results[k].compressed_size
                        ELSE 0]
        IN  /\ ret.total_savings = ret.total_original_size - ret.total_compressed_size
            /\ ret.total_savings = SumSeq(both)

\* C23: created_folders holds exactly the folders that a successful or a
\* previewed file was to go to; a folder only failed files were to go to is
\* not in it.
C23_FoldersOfSuccessOnly ==
    (prog = "organizer" /\ pc = "done") =>
        ret.created_folders =
            {ret.results[k].target_path.folder :
                k \in {j \in 1..Len(ret.results) : ret.results[j].success}}

\* C30: when a run that is no preview ends, and no operation failed and
\* nobody else touched the tree, every result with success=True has a file at
\* its target_path.
C30_SuccessMeansPresent ==
    (RealRun /\ pc = "done" /\ faults = 0) =>
        \A k \in 1..Len(ret.results) :
            ret.results[k].success => Exists(fs, ret.results[k].target_path)

\* The optimization of the current file failed and so did the fallback.
BothFailed ==
    /\ prog = "organizer"
    /\ pc = "append"
    /\ result.error_message = "Both optimization and fallback failed"

\* C27: when the optimization of a file and the move-only fallback both
\* fail, the result is a failure with an error message, and the source file
\* is at its path with the bytes it had.
C27_FallbackFailureKeepsSource ==
    BothFailed =>
        /\ ~result.success
        /\ result.error_message # "None"
        /\ Exists(fs, files[i])
        /\ fs[files[i]] = original

\* The file in hand in optimize mode is no PNG, and _optimize_with_pngquant
\* is at work on it or has returned its result.
NonPngInHand ==
    /\ prog = "organizer"
    /\ mode = "optimize_move"
    /\ pc \in {"opt_nonpng", "append"} \cup PngSteps
    /\ Lower(Suffix(NameString(files[i].name))) # Dot \o Codes["png"]

\* C26: for a discovered file that is no PNG, in optimize mode, no temp file
\* is created and the tool is not run; when the relocation succeeds the file
\* is at its target with the bytes it had, the status is skipped_non_png and
\* compressed_size equals original_size; when it fails the result is a
\* failure, and every failure is counted in failed_files.
C26_NonPngBypassesTool ==
    /\ NonPngInHand =>
          /\ pc \in {"opt_nonpng", "append"}
          /\ temp_path = 0
          /\ DOMAIN temps = {}
          /\ returncode = 0 - 1
          /\ pc = "append" =>
                IF result.success
                THEN /\ Exists(fs, target_path)
                     /\ fs[target_path] = original
                     /\ result.pngquant_status = "skipped_non_png"
                     /\ result.original_size = Size(original)
                     /\ result.compressed_size = result.original_size
                ELSE /\ HasError(result.pngquant_status)
                     /\ result.error_message # "None"
    /\ (prog = "organizer" /\ pc = "done" /\ mode = "optimize_move" /\ ~preview_only) =>
          ret.failed_files =
              Cardinality({k \in 1..Len(ret.results) : ~ret.results[k].success})

\* A file that is no PNG was relocated in optimize mode.
C26_Witness ==
    /\ NonPngInHand
    /\ pc = "append"
    /\ result.success
    /\ result.pngquant_status = "skipped_non_png"
    /\ ~Exists(fs, files[i])

\* C25, the organizer's part: when pngquant exits with 0 and no later step
\* raises, the result is optimized, its compressed_size is the size of the
\* rewritten temp file and its ratio is (original - compressed) / original
\* * 100, or 0 for an original of no bytes; average_compression is 0 when
\* total_original_size is 0.
C25_OrganizerRatio ==
    /\ (PngReturned /\ returncode = 0 /\ ~HasError(result.pngquant_status)) =>
          /\ result.success
          /\ result.pngquant_status = "optimized"
          /\ result.original_size = Size(original)
          /\ result.compressed_size = Size(Pngquant(original, 0))
          /\ result.compression_ratio =
                IF Size(original) = 0 THEN 0
                ELSE ((Size(original) - Size(Pngquant(original, 0))) * 100)
                         \div Size(original)
    /\ (prog = "organizer" /\ pc = "done" /\ ret.total_original_size = 0) =>
          ret.optimization_stats.average_compression = 0

\* C25: whenever pngquant exits with 0 the outcome is optimized, with the
\* compressed size read from the rewritten temp file and the ratio
\* (original - compressed) / original * 100, which is 0 and no error when the
\* original has no bytes; this for the organizer and for optimize_png.
C25_SuccessIsOptimized ==
    /\ C25_OrganizerRatio
    /\ (prog = "batch" /\ pc = "b_count" /\ returncode = 0 /\ faults = 0) =>
          /\ breturn.success
          /\ StatusHas(breturn.status, "optimized")
          /\ breturn.original_size = Size(original)
          /\ breturn.compressed_size = Size(Pngquant(original, 0))

\* pngquant has exited with 0 for a file of no bytes.
C25_ZeroSizeCase ==
    /\ PngReturned
    /\ returncode = 0
    /\ result.original_size = 0
    /\ result.pngquant_status = "optimized"

\* C21: generate_compression_report is idempotent and has no side effect:
\* every call on one OrganizeResult returns the same text, and after any
\* call the OrganizeResult is, field for field and result for result, what
\* the first call was given.
C21_ReportIsPure ==
    reports # <<>> =>
        /\ ret = given
        /\ \A j \in 1..Len(reports) : reports[j] = reports[1]

\* The report was made twice on an OrganizeResult whose results are not in
\* the order of their ratios, and it lists more than one file.
C21_Witness ==
    /\ Len(reports) = 2
    /\ reports[1].kind = "report"
    /\ Len(reports[1].best) >= 2
    /\ \E j \in 1..Len(ret.results) : \E k \in (j + 1)..Len(ret.results) :
          ret.results[j].compression_ratio < ret.results[k].compression_ratio

\* The ratios of the files the last report lists, in the order of the list.
Listed == [k \in 1..Len(reports[Len(reports)].best) |->
              reports[Len(reports)].best[k].ratio.whole]

\* The number of results of the reported OrganizeResult whose ratio is in S.
WithRatio(S) ==
    Cardinality({k \in 1..Len(ret.results) : ret.results[k].compression_ratio \in S})

Reported == reports # <<>> /\ reports[Len(reports)].kind = "report"

\* The list holds min(5, k) files of the k results whose ratio is among the
\* candidates, in falling order of ratio, each of them such a result, and
\* no such result left out has a higher ratio than a listed one.
BestOf(listed, candidates) ==
    LET ratios == [j \in 1..Len(ret.results) |-> ret.results[j].compression_ratio]
        among(q, v) == Cardinality({j \in 1..Len(q) : q[j] = v})
        k == Cardinality({j \in 1..Len(ratios) : ratios[j] \in candidates})
    IN  /\ Len(listed) = (IF k < 5 THEN k ELSE 5)
        /\ \A a \in 1..Len(listed) : \A b \in (a + 1)..Len(listed) :
              listed[a] >= listed[b]
        /\ \A a \in 1..Len(listed) :
              /\ listed[a] \in candidates
              /\ among(listed, listed[a]) <= among(ratios, listed[a])
        /\ \A j \in 1..Len(ratios) :
              (/\ ratios[j] \in candidates
               /\ among(listed, ratios[j]) < among(ratios, ratios[j])) =>
                  \A a \in 1..Len(listed) : listed[a] >= ratios[j]

\* C24 as stated: with k results of a positive ratio the best-results
\* section lists min(5, k) of them in falling order, and no omitted one has
\* a higher ratio than a listed one.
C24_TopFiveOfPositive ==
    Reported => BestOf(Listed, 1..100)

\* C24: with k results of a ratio above 50 the best-results section lists
\* min(5, k) of them in falling order of ratio, no omitted one of these has
\* a higher ratio than a listed one, and a result of a ratio of 50 or less
\* is never listed.
C24_TopFiveAboveFifty ==
    Reported => BestOf(Listed, 51..100)

\* A report on more than five results above 50 percent, of different
\* ratios.
C24_Witness ==
    /\ Reported
    /\ WithRatio(51..100) > 5
    /\ Len(Listed) = 5
    /\ Listed[1] > Listed[5]

\* find_best_layout has returned for num_images.
LayoutReturned == prog = "layout" /\ pc = "done"

\* C28: find_best_layout returns (0, 0) for num_images <= 0, (1, 1) for 1
\* and (k, k) for every square k * k.
C28_SquaresAndEdges ==
    LayoutReturned =>
        /\ num_images <= 0 => layout = <<0, 0>>
        /\ num_images = 1 => layout = <<1, 1>>
        /\ \A k \in 1..num_images : k * k = num_images => layout = <<k, k>>

\* It has returned for a square of more than one image.
C28_Witness ==
    /\ LayoutReturned
    /\ num_images > 1
    /\ \E k \in 1..num_images : k * k = num_images /\ layout = <<k, k>>

\* The exact factor pairs of n whose sides differ least.
SquarestFactors(n) ==
    LET pairs == {<<r, c>> \in (1..n) \X (1..n) : r * c = n}
        gap(p) == IF p[1] > p[2] THEN p[1] - p[2] ELSE p[2] - p[1]
    IN  {p \in pairs : \A q \in pairs : gap(p) <= gap(q)}

\* C29: for a num_images that is no square and is a product of two numbers
\* above 1, find_best_layout returns the most square-like exact factor
\* pair: rows * cols = num_images, no empty cell.
C29_ExactFactorPair ==
    (/\ LayoutReturned
     /\ num_images > 0
     /\ \A k \in 1..num_images : k * k # num_images
     /\ \E r \in 2..num_images, c \in 2..num_images : r * c = num_images) =>
        /\ layout[1] * layout[2] = num_images
        /\ layout \in SquarestFactors(num_images)

\* The results of the run that ended whose target is t.
ResultsFor(t) == {k \in 1..Len(ret.results) : ret.results[k].target_path = t}

\* Target t had a collision in the run that ended: a file was there when the
\* run started, or two discovered files resolved to it.
Collided(t) ==
    /\ ResultsFor(t) # {}
    /\ Exists(fs0, t) \/ Cardinality(ResultsFor(t)) > 1

\* C31: no collision is resolved: where a file was at a target path already,
\* or two discovered files have one target, each of these files is reported
\* with success=True and the target holds, when the run ends, the content of
\* the last of them in discovery order (no fault, nobody else at work).
C31_LastWriterWins ==
    (RealRun /\ pc = "done" /\ faults = 0) =>
        \A k \in 1..Len(ret.results) :
            LET t == ret.results[k].target_path
                last == CHOOSE j \in ResultsFor(t) : \A m \in ResultsFor(t) : m <= j
            IN  (t # NoPath /\ Collided(t)) =>
                    /\ ret.results[k].success
                    /\ Exists(fs, t)
                    /\ fs[t].origin = files[last]

\* C31 without the mode MOVE, with pngquant installed and without a file
\* found at its own target.
C31_OptimizeNoAlias ==
    (RealRun /\ pc = "done" /\ faults = 0 /\ mode = "optimize_move" /\ tool.present
        /\ \A k \in 1..Len(files) : files[k].loc # "target") =>
        \A k \in 1..Len(ret.results) :
            LET t == ret.results[k].target_path
                last == CHOOSE j \in ResultsFor(t) : \A m \in ResultsFor(t) : m <= j
            IN  (t # NoPath /\ Collided(t)) =>
                    /\ ret.results[k].success
                    /\ Exists(fs, t)
                    /\ fs[t].origin = files[last]

\* The OrganizeResult r accounts for every file.
FullAccounting(r) ==
    /\ r.total_files = Len(r.results)
    /\ r.total_files = r.processed_files + r.failed_files
    /\ r.processed_files = Cardinality({k \in 1..Len(r.results) : r.results[k].success})
    /\ r.failed_files = Cardinality({k \in 1..Len(r.results) : ~r.results[k].success})
    /\ \A k \in 1..Len(r.results) :
          ~r.results[k].success => r.results[k].error_message \notin {"None", ""}

\* C32: every OrganizeResult organize_files returns, of a preview or of a
\* run, accounts for every file: total_files = len(results) =
\* processed_files + failed_files, the two counters are the numbers of the
\* results with success=True and success=False, and every failed result has
\* an error message; also when every file failed.
C32_FullAccounting ==
    prog = "organizer" =>
        /\ ret.returned => (ret.total_files = Len(files) /\ FullAccounting(ret))
        /\ prev.returned => FullAccounting(prev)

\* A run over more than one file has returned, and every file failed.
C32_Witness ==
    /\ RealRun
    /\ pc = "done"
    /\ ret.total_files > 1
    /\ ret.failed_files = ret.total_files
    /\ \E k \in 1..Len(ret.results) : ret.results[k].target_path # NoPath

\* C33: every result that carries a status is counted in exactly one
\* category of optimization_stats: the four counters add up to the number
\* of the results with a status, in OPTIMIZE_MOVE and in MOVE.
C33_EveryStatusCounted ==
    (prog = "organizer" /\ ret.returned) =>
        ret.optimization_stats.optimized_count + ret.optimization_stats.skipped_non_png
            + ret.optimization_stats.skipped_larger + ret.optimization_stats.error_count
          = Cardinality({k \in 1..Len(ret.results) :
                            ret.results[k].pngquant_status # "None"})

\* C33 for the runs in mode OPTIMIZE_MOVE.
C33_OptimizeModeCounted ==
    mode = "optimize_move" => C33_EveryStatusCounted

\* The counters of a PNGOptimizer add up.
CountersAddUp(st) ==
    st.processed_files = st.optimized_files + st.skipped_files + st.error_files

\* What the step that counts one file adds to a counter.
Added(field) == stats'[field] - stats[field]

\* The step of process_directory that counts the file in hand counts it by
\* the exit code of pngquant: as optimized for 0, as skipped for "would be
\* larger", as an error otherwise (no exit code included).
CountedByExit ==
    /\ Added("processed_files") = 1
    /\ Added("optimized_files") = (IF returncode = 0 THEN 1 ELSE 0)
    /\ Added("skipped_files") = (IF returncode = SKIP_IF_LARGER THEN 1 ELSE 0)
    /\ Added("error_files") = (IF returncode \notin {0, SKIP_IF_LARGER} THEN 1 ELSE 0)

\* C37: in process_directory processed_files = optimized_files +
\* skipped_files + error_files, and every file is counted by what pngquant
\* did with it: optimized_files counts the files it exited 0 for,
\* skipped_files those it declined as would-be-larger, error_files the
\* others, whatever the names of the files and whatever keep_original is.
C37_CountedByExit ==
    [][(prog = "batch" /\ pc = "b_count") => (CountedByExit /\ CountersAddUp(stats'))]_vars

\* C37 for the files that have bytes, with nothing failing around pngquant,
\* when the optimized file replaces the original.
C37_CountedByExitReplacing ==
    [][(prog = "batch" /\ pc = "b_count" /\ faults = 0 /\ original_size # 0
            /\ ~keep_original) => CountedByExit]_vars

\* C37, the sum alone.
C37_CountersAddUp == prog = "batch" => CountersAddUp(stats)

\* optimize_png is at work on the file in hand.
InOptimizePng == prog = "batch" /\ pc \in {"b_stat", "b_mktemp", "b_copy", "b_run",
                                            "b_exit", "b_except"}

\* optimize_png has returned for the file in hand.
PngReturnedFor(rc) == prog = "batch" /\ pc = "b_count" /\ returncode = rc

\* The one write optimize_png may do: after exit code 0 the optimized bytes
\* are put at the original's path, or with keep_original at its sibling
\* '.optimized.png'.
OnlyOptimizedWritten ==
    fs' # fs =>
        /\ pc = "b_exit"
        /\ returncode = 0
        /\ \E dest \in {IF keep_original THEN backup_path(files[i]) ELSE files[i]} :
              fs' = Put(fs, dest, Pngquant(original, 0))
        /\ keep_original => backup_path(files[i]) # files[i]

\* What holds when optimize_png returns without having optimized: the
\* compressed size returned is the original size, no temp file is left, and
\* the original, if it was there, is as it was.
ReturnedUntouched ==
    /\ breturn.compressed_size = breturn.original_size
    /\ temps = <<>>
    /\ original # NoData => (Exists(fs, files[i]) /\ fs[files[i]] = original)

\* C36: optimize_png changes the original only when pngquant exits 0 and
\* keep_original is false, and then the original holds the optimized bytes;
\* with keep_original the original stays and the optimized bytes are in the
\* sibling '.optimized.png'; on the would-be-larger exit, any other exit, a
\* timeout or an exception no file is changed or created and the compressed
\* size returned is the original size.
C36_OptimizePngFrame ==
    /\ [][InOptimizePng => OnlyOptimizedWritten]_vars
    /\ [](\A rc \in {0 - 1, 0, 1, SKIP_IF_LARGER} : PngReturnedFor(rc) =>
            IF breturn.success /\ rc = 0
            THEN /\ temps = <<>>
                 /\ fs[files[i]] = (IF keep_original THEN original
                                    ELSE Pngquant(original, 0))
                 /\ keep_original =>
                        /\ Exists(fs, backup_path(files[i]))
                        /\ fs[backup_path(files[i])] = Pngquant(original, 0)
            ELSE ReturnedUntouched)

\* optimize_png has written the optimized bytes of a file to its sibling.
C36_Witness ==
    /\ PngReturnedFor(0)
    /\ keep_original
    /\ breturn.success
    /\ Exists(fs, backup_path(files[i]))
    /\ fs[files[i]] # fs[backup_path(files[i])]

\* The sizes of a sub-image the grid is checked with.
SubSizes == 1..2

\* C38: for num_images >= 1 find_best_layout returns (rows, cols) with
\* 1 <= rows <= cols and rows * cols >= num_images, and create_grid_image
\* pastes every sub-image inside the output image of that layout.
C38_GridHoldsEveryImage ==
    (LayoutReturned /\ num_images >= 1) =>
        /\ 1 <= layout[1]
        /\ layout[1] <= layout[2]
        /\ layout[1] * layout[2] >= num_images
        /\ \A k \in 0..(num_images - 1), w \in SubSizes, h \in SubSizes :
              \E at \in {dst(k, w, h, layout[2])},
                 size \in {output_size(w, h, layout[1], layout[2])} :
                 /\ at[1] + w <= size[1]
                 /\ at[2] + h <= size[2]

\* It has returned a layout of several rows with cells to spare.
C38_Witness ==
    /\ LayoutReturned
    /\ layout[1] > 1
    /\ layout[1] * layout[2] > num_images

\* The workers of the TUI that are between self.is_processing = True and
\* their finally clause: an organize_files of the organizer is theirs.
InProgress ==
    {k \in 1..Len(tui.workers) : tui.workers[k].state \in {"started", "calling"}}

\* C34: in the TUI at most one worker has an organize_files of the
\* organizer in progress, is_processing is set exactly while one has, no
\* event handled while is_processing is set adds a worker, and when a
\* worker ends, by return or by exception, is_processing is false again and
\* a press can start the next.
C34_OneRunAtATime ==
    /\ [](prog = "tui" =>
            /\ Cardinality(InProgress) <= 1
            /\ tui.is_processing <=> InProgress # {})
    /\ [][(prog = "tui" /\ tui.is_processing) =>
            Len(tui'.workers) <= Len(tui.workers)]_vars
    /\ [][(prog = "tui" /\ tui'.ended > tui.ended) => ~tui'.is_processing]_vars

\* A worker is at work on a call of organize_files after another worker
\* ended and after a press that started nothing.
C34_Witness ==
    /\ prog = "tui"
    /\ tui.ignored > 0
    /\ tui.ended > 0
    /\ pc = "loop"
    /\ InProgress # {}

\* The organizer the next worker of the TUI will use has the app's
\* source_dir, target_dir and current_mode.
OrganizerHasSettings ==
    /\ tui.organizer.source_dir = tui.source_dir
    /\ tui.organizer.target_dir = tui.target_dir
    /\ tui.organizer.mode = tui.current_mode

\* C35: after any events the organizer of the TUI reflects the settings of
\* the app: its source_dir, target_dir and mode are the app's, and once the
\* Copy button was pressed (the app's keep_original is set) its
\* keep_original is True.
C35_OrganizerReflectsSettings ==
    (prog = "tui" /\ tui.organizer # NoOrganizer) =>
        /\ OrganizerHasSettings
        /\ tui.keep_original => tui.organizer.keep_original

\* C35 without keep_original.
C35_DirectoriesAndMode ==
    (prog = "tui" /\ tui.organizer # NoOrganizer) => OrganizerHasSettings

\* C35, the consequence: a run a worker starts after the Copy button was
\* pressed leaves every file it found where it was.
C35_CopyRunKeepsSources ==
    (prog = "tui" /\ tui.keep_original /\ pc = "done" /\ ~preview_only
        /\ mode = "optimize_move") =>
        \A k \in 1..Len(files) : Exists(fs, files[k])

====
